---- MODULE Spec2Model ----
(***************************************************************************)
(* State-machine model of the ingestion and query pipeline of the RAG      *)
(* application:                                                            *)
(*   - DocumentCacheService            (lib/documentCache.ts)              *)
(*   - BackgroundProcessingService     (lib/backgroundProcessing.ts)       *)
(*   - EmbeddingService                (lib/embeddingsOptimized.ts)        *)
(*   - RetrieverService                (lib/retriever.ts)                  *)
(*   - RerankerService                 (lib/reranker.ts)                   *)
(*   - RAGService, LLMService          (lib/ragService.ts, lib/llm.ts)     *)
(*   - TextProcessor                   (lib/textProcessorOptimized.ts)     *)
(*   - POST /api/upload                (app/api/upload/route.ts)           *)
(*   - CircuitBreaker                  (lib/backgroundProcessing.ts)       *)
(* Each component has its own specifications (SpecCache, SpecJobs,         *)
(* SpecStages, SpecExpiry, SpecQueue, SpecSweep, SpecCancel, SpecOrder,    *)
(* SpecEmbed, SpecRetry, SpecMMR, SpecDiverse, SpecRerank, SpecQuery,      *)
(* SpecChunk, SpecUpload, SpecBreaker, SpecConsole); the variables of the  *)
(* other components keep their initial values under them.                  *)
(***************************************************************************)
EXTENDS Integers, Sequences, FiniteSets, TLC

VARIABLES
  \* DocumentCacheService
  documentHashes,   \* Map<hash, entry>
  chunkHashes,      \* Set<hash>
  now,              \* Date.now(), in ms
  \* the last filterDuplicateFiles call made directly on the cache
  lastBatch,        \* its argument
  hashesBefore,     \* documentHashes when it was called
  checkedAt,        \* Date.now() when it was called
  uniqueFiles,      \* its result.uniqueFiles
  duplicates,       \* its result.duplicates
  indexed,          \* whether its unique files have since been indexed and registered
  lastRegistered,   \* trimmed content -> time of its latest registration
  \* BackgroundProcessingService
  jobs,             \* every ProcessingJob created, by jobId
  deletedJobs,      \* the jobIds cleanupOldJobs has deleted from the Map this.jobs
  jobQueue,         \* string[]
  isProcessing,
  activeJobs,
  timers,           \* pending setTimeout(() => this.processQueue(), 100) callbacks
  pc,               \* per created job: where its processJob execution stands, "done"
                    \* once it has resolved, "failed" once it has thrown
  local,            \* per created job: the local variables of its processJob execution
  aged,             \* how many of the created jobs started more than 24 hours ago
  cancelResponse,   \* what the latest DELETE request for a job was answered with
  \* EmbeddingService: one call of generateEmbeddings and its caller
  caller,           \* the method that was called
  texts,            \* the texts passed to generateEmbeddings
  batchSize,
  parallelBatches,
  phase,            \* "idle", "running" or "returned"
  group,            \* the group of batches in flight, counted from 1
  settled,          \* per text: "pending", or how its item promise settled
  stored,           \* the batches whose processBatch has stored its results
  embeddings,       \* (number[] | null)[]
  completed,
  failed,
  returned,         \* what the called method resolved to
  \* EmbeddingService: one call of generateEmbedding
  text,
  maxRetries,
  retryCount,
  promise,          \* "none", "calling", "sleeping", "resolved" or "rejected"
  calls,            \* provider calls made so far
  delays,           \* the sleeps made so far, in ms
  errors,           \* what each failed attempt failed with
  resolvedWith,     \* the value the call resolved to
  \* RetrieverService: one call of retrieveWithMMR
  topK,
  lambda,           \* in tenths
  crossSimilarity,  \* per pair of different contents: cosine similarity of their embeddings, in tenths
  candidates,       \* what retrieve() resolved to
  selected,
  remaining,
  mmrPhase,         \* "idle", "embedding", "selecting", "returned" or "rejected"
  \* RerankerService: one call of rerank
  results,          \* the results passed to rerank
  topN,             \* the topN passed to rerank, 0 if none
  rerankPhase,      \* "idle", "calling", "sleeping" or "returned"
  rerankFailed,     \* whether the catch block of rerank ran
  rerankedResults,
  rerankReturned,   \* what rerank resolved to
  \* RAGService: one call of query
  options,          \* the options of the query, defaults filled in
  queryStage,       \* "idle", "embedding", "retrieving", "reranking", "generating" or "resolved"
  retrievalResults, \* what the retriever resolved to
  finalResults,     \* the results handed to the LLM
  failedSteps,      \* the steps of this query that failed
  queryResult,      \* the QueryResult the call resolved to
  \* TextProcessor: one call of processFile
  docContent,       \* content of processFile after cleanText
  docSections,      \* the sections of the document, each with the offset of its content in docContent
  sectionIndex,     \* the section createTokenBasedChunks is working on, from 1
  currentPosition,
  previousPosition, \* currentPosition at the start of the latest loop iteration, -1 before the first
  chunkIndex,
  sectionChunks,    \* chunks of createTokenBasedChunks
  docChunks,        \* chunks of processFile
  globalChunkIndex,
  iterations,       \* loop iterations of the current createTokenBasedChunks call
  chunkerPhase,     \* "idle", "chunking" or "done"
  \* POST /api/upload (app/api/upload/route.ts)
  formFiles,        \* the files of the request, each with what extractText does for it
  filesRead,        \* how many of them the extraction loop has handled
  uploadedFiles,    \* the files extracted so far
  routeUniqueFiles, \* what filterDuplicateFiles returned to the route
  routePhase,       \* "idle", "extracting" or "responded"
  routeResponse,    \* the response of the route, "none" before it is sent
  \* CircuitBreaker
  breakerState,     \* 'CLOSED' | 'OPEN' | 'HALF_OPEN'
  failures,
  lastFailureTime,
  breakerClock,     \* Date.now() as the breaker reads it
  operations,       \* per execute call: "none" before it is made, "invoked" while its operation is awaited, then how it settled
  trial,            \* the call that last moved the breaker from OPEN to HALF_OPEN, 0 if none
  \* console.log and its captures in the upload route
  consoleLog,       \* console.log: Original, or the run whose wrapper it is
  originalConsoleLog,\* per run: its const originalConsoleLog
  capture           \* per run: "idle", "capturing" inside the try block, then "completed" or "error"

cacheVars == <<documentHashes, chunkHashes, now>>
callVars == <<lastBatch, hashesBefore, checkedAt, uniqueFiles, duplicates, indexed,
              lastRegistered>>

jobVars == <<jobs, deletedJobs, jobQueue, isProcessing, activeJobs, timers, pc, local,
             aged, cancelResponse>>

embedVars == <<caller, texts, batchSize, parallelBatches, phase, group, settled, stored,
               embeddings, completed, failed, returned>>

retryVars == <<text, maxRetries, retryCount, promise, calls, delays, errors, resolvedWith>>

mmrVars == <<topK, lambda, crossSimilarity, candidates, selected, remaining, mmrPhase>>

rerankVars == <<results, topN, rerankPhase, rerankFailed, rerankedResults, rerankReturned>>

queryVars == <<options, queryStage, retrievalResults, finalResults, failedSteps, queryResult>>

chunkVars == <<docContent, docSections, sectionIndex, currentPosition, previousPosition, chunkIndex, sectionChunks, docChunks, globalChunkIndex, iterations, chunkerPhase>>

uploadVars == <<formFiles, filesRead, uploadedFiles, routeUniqueFiles, routePhase, routeResponse>>

breakerVars == <<breakerState, failures, lastFailureTime, breakerClock, operations, trial>>

consoleVars == <<consoleLog, originalConsoleLog, capture>>

vars == <<documentHashes, chunkHashes, now, lastBatch, hashesBefore, checkedAt,
          uniqueFiles, duplicates, indexed, lastRegistered,
          jobs, deletedJobs, jobQueue, isProcessing, activeJobs, timers, pc, local,
          aged, cancelResponse,
          caller, texts, batchSize, parallelBatches, phase, group, settled, stored,
          embeddings, completed, failed, returned,
          text, maxRetries, retryCount, promise, calls, delays, errors, resolvedWith,
          topK, lambda, crossSimilarity, candidates, selected, remaining, mmrPhase,
          results, topN, rerankPhase, rerankFailed, rerankedResults, rerankReturned,
          options, queryStage, retrievalResults, finalResults, failedSteps, queryResult,
          docContent, docSections, sectionIndex, currentPosition, previousPosition, chunkIndex, sectionChunks, docChunks, globalChunkIndex, iterations, chunkerPhase,
          formFiles, filesRead, uploadedFiles, routeUniqueFiles, routePhase, routeResponse,
          breakerState, failures, lastFailureTime, breakerClock, operations, trial,
          consoleLog, originalConsoleLog, capture>>

----------------------------------------------------------------------------
(* Bounds of the model *)

\* longest upload batch
MaxBatchLen == 2
\* the clock is sampled around the multiples 0..MaxPeriods of the retention window
MaxPeriods == 1
\* most chunks the chunker returns for one file
MaxChunksPerFile == 1
\* most jobs ever created
MaxJobs == 3
\* most jobs ever created where the order of their starts is examined
MaxQueuedJobs == 4
\* jobs created while the clock advances
MaxExpiringJobs == 2
\* most texts passed to one generateEmbeddings call
MaxTexts == 3
\* largest configured embeddings.batchSize
MaxBatchSize == 2
\* largest configured embeddings.parallelBatches
MaxParallelBatches == 2
\* largest configured embeddings.maxRetries
MaxRetryConfig == 3
\* largest topK passed to retrieveWithMMR
MaxTopK == 2
\* most matches the index holds for a query
MaxMatches == 3
\* largest topK of the retrieveWithMMR calls whose result order is examined
MaxSelections == 3
\* largest topN passed to rerank
MaxTopN == 3
\* the 50 of Math.min(50, results.length) in rerank, scaled down to the result
\* lists of the model
maxInputResults == 2
\* largest topK of a query
MaxQueryTopK == 3
\* MAX_JOBS_HISTORY, scaled down to the jobs of the model
MAX_JOBS_HISTORY == 1
\* files in one upload request
MaxFormFiles == 3
\* the threshold and the timeout of the CircuitBreaker constructor (5 failures
\* and 60000 ms by default), scaled down
threshold == 2
timeout == 1
\* most execute calls made on one breaker, and the latest instant of its clock
MaxExecutes == 4
MaxBreakerClock == 3
\* upload requests and background upload runs
MaxRuns == 3
\* most lines of an uploaded text
MaxLines == 5
\* config.chunking, scaled down to the texts of the model: chunkSize,
\* chunkOverlap and minChunkLength in tokens, maxChunksPerDocument in chunks
chunkSize == 3
chunkOverlap == 2
minChunkLength == 3
maxChunksPerDocument == 3

----------------------------------------------------------------------------
(* Generic helpers *)

EmptyMap == [k \in {} |-> {}]

MapSet(m, k, v) == [x \in (DOMAIN m) \cup {k} |-> IF x = k THEN v ELSE m[x]]

MapDelete(m, k) == [x \in (DOMAIN m) \ {k} |-> m[x]]

SeqRange(s) == {s[i] : i \in 1..Len(s)}

RECURSIVE SeqsUpTo(_, _)
SeqsUpTo(S, n) ==
  IF n = 0 THEN {<<>>}
  ELSE LET shorter == SeqsUpTo(S, n - 1)
       IN shorter \cup {Append(s, x) : s \in {t \in shorter : Len(t) = n - 1}, x \in S}

----------------------------------------------------------------------------
(* Text and hashing.  A text is a sequence of characters; " " stands for   *)
(* any whitespace character of a line, "\n" for any line terminator.       *)

IsSpace(c) == c \in {" ", "\n"}

RECURSIVE TrimLeft(_)
TrimLeft(s) ==
  IF s = <<>> THEN <<>>
  ELSE IF IsSpace(Head(s)) THEN TrimLeft(Tail(s)) ELSE s

RECURSIVE TrimRight(_)
TrimRight(s) ==
  IF s = <<>> THEN <<>>
  ELSE IF IsSpace(s[Len(s)]) THEN TrimRight(SubSeq(s, 1, Len(s) - 1)) ELSE s

\* String.prototype.trim
Trim(s) == TrimRight(TrimLeft(s))

\* crypto.createHash('sha256').update(s).digest('hex'): collision-free
SHA256(s) == <<"sha256", s>>

\* DocumentCacheService.calculateContentHash
calculateContentHash(content) == SHA256(Trim(content))

----------------------------------------------------------------------------
(* Uploaded files *)

\* an absent (undefined) contentHash
NoHash == <<>>

\* raw texts as they arrive at the upload route
RawTexts == {<<"a">>, <<"a", " ">>}

\* POST /api/upload: the file built from an extracted or pasted text
RouteFile(raw) ==
  [name |-> "pasted-text.txt", content |-> Trim(raw), contentHash |-> SHA256(raw)]

\* an UploadedFile without the optional contentHash
PlainFile(content) ==
  [name |-> "doc.txt", content |-> content, contentHash |-> NoHash]

Files == {RouteFile(r) : r \in RawTexts} \cup {PlainFile(<<"a">>), PlainFile(<<" ", "b">>)}

Batches == SeqsUpTo(Files, MaxBatchLen) \ {<<>>}

\* file.contentHash || this.calculateContentHash(file.content)
HashOf(file) ==
  IF file.contentHash # NoHash THEN file.contentHash
  ELSE calculateContentHash(file.content)

----------------------------------------------------------------------------
(* DocumentCacheService *)

MsPerHour == 1000 * 60 * 60

CACHE_EXPIRY_HOURS == 24 * 7

ExpiryMs == CACHE_EXPIRY_HOURS * MsPerHour

\* hoursSinceProcessed < CACHE_EXPIRY_HOURS, with
\* hoursSinceProcessed = (Date.now() - timestamp) / (1000 * 60 * 60)
StillValid(entry, t) == (t - entry.timestamp) < CACHE_EXPIRY_HOURS * MsPerHour

\* isDocumentDuplicate(content) on registry dh at time t; also returns the
\* registry after the lazy eviction of an expired entry
isDocumentDuplicate(content, dh, t) ==
  LET hash == calculateContentHash(content)
  IN IF hash \in DOMAIN dh
     THEN IF StillValid(dh[hash], t)
          THEN [isDuplicate |-> TRUE, existingEntry |-> <<dh[hash]>>, documentHashes |-> dh]
          ELSE [isDuplicate |-> FALSE, existingEntry |-> <<>>,
                documentHashes |-> MapDelete(dh, hash)]
     ELSE [isDuplicate |-> FALSE, existingEntry |-> <<>>, documentHashes |-> dh]

\* cleanupExpiredEntries() on registry dh and chunk-hash set ch at time t
cleanupExpiredEntries(dh, ch, t) ==
  LET expiredHashes == {hash \in DOMAIN dh : ~StillValid(dh[hash], t)}
  IN [documentHashes |-> [hash \in DOMAIN dh \ expiredHashes |-> dh[hash]],
      chunkHashes |-> IF Cardinality(expiredHashes) > 0 THEN {} ELSE ch,
      removedDocuments |-> Cardinality(expiredHashes),
      removedChunks |-> Cardinality(ch)]

\* what the loop of filterDuplicateFiles does with a file whose hash is already
\* in currentBatchHashes
WithinBatchDuplicate(acc, file) == acc

\* one iteration of the loop of filterDuplicateFiles
FilterStep(acc, file, t) ==
  LET hash == HashOf(file)
  IN IF hash \in acc.currentBatchHashes
     THEN WithinBatchDuplicate(acc, file)
     ELSE LET duplicateCheck == isDocumentDuplicate(file.content, acc.documentHashes, t)
          IN IF duplicateCheck.isDuplicate /\ duplicateCheck.existingEntry # <<>>
             THEN [acc EXCEPT
                     !.duplicates = Append(@, [file |-> file,
                                               existingEntry |-> duplicateCheck.existingEntry[1]]),
                     !.documentHashes = duplicateCheck.documentHashes]
             ELSE [acc EXCEPT
                     !.uniqueFiles = Append(@, [file EXCEPT !.contentHash = hash]),
                     !.currentBatchHashes = @ \cup {hash},
                     !.documentHashes = duplicateCheck.documentHashes]

RECURSIVE FilterLoop(_, _, _)
FilterLoop(acc, files, t) ==
  IF files = <<>> THEN acc
  ELSE FilterLoop(FilterStep(acc, Head(files), t), Tail(files), t)

\* filterDuplicateFiles(files) on registry dh at time t
filterDuplicateFiles(files, dh, t) ==
  FilterLoop([uniqueFiles |-> <<>>, duplicates |-> <<>>,
              currentBatchHashes |-> {}, documentHashes |-> dh], files, t)

\* the key under which registerProcessedDocument stores a file
RegistryKey(file) == HashOf(file)

\* registerProcessedDocument(file, chunks): the registry afterwards
registerDocument(file, chunks, dh, t) ==
  LET hash == RegistryKey(file)
  IN MapSet(dh, hash, [hash |-> hash, filename |-> file.name,
                       timestamp |-> t, chunks |-> Len(chunks)])

\* registerProcessedDocument(file, chunks): the chunk-hash set afterwards
registerChunks(chunks, ch) ==
  ch \cup {calculateContentHash(chunks[i].content) : i \in 1..Len(chunks)}

----------------------------------------------------------------------------
(* The chunker as the orchestrator sees it: a pure function of the file,   *)
(* yielding up to MaxChunksPerFile chunks whose source is the file's name. *)

Min(a, b) == IF a <= b THEN a ELSE b

ChunksOfFile(file) ==
  [k \in 1..Min(Len(Trim(file.content)), MaxChunksPerFile) |->
     [source |-> file.name, content |-> Trim(file.content) \o [i \in 1..k |-> "."]]]

----------------------------------------------------------------------------
(* The clock *)

Instants ==
  {i \in {k * ExpiryMs + d : k \in 0..MaxPeriods, d \in {-1, 0}} : i >= 0}

AdvanceClock ==
  /\ \E t \in Instants : t > now /\ now' = t
  /\ UNCHANGED <<documentHashes, chunkHashes>>

\* an absent (undefined) number
NotYet == 0 - 1

----------------------------------------------------------------------------
(* EmbeddingService: the pure parts *)

Null == <<"null">>

\* text.replace(/\n/g, ' ')
ReplaceNewlines(str) == [i \in 1..Len(str) |-> IF str[i] = "\n" THEN " " ELSE str[i]]

\* the provider's vector for a text (model.embedContent)
embedContent(str) == <<"vec", str>>

\* what generateEmbedding(text) resolves to when a call succeeds
EmbeddingOf(str) == embedContent(ReplaceNewlines(str))

\* a collection that drops nothing
KeepAll(embs) == embs

\* embeddings.forEach(...): the non-null entries, in index order
RECURSIVE successfulEmbeddings(_)
successfulEmbeddings(embs) ==
  IF embs = <<>> THEN <<>>
  ELSE IF Head(embs) # Null
       THEN <<Head(embs)>> \o successfulEmbeddings(Tail(embs))
       ELSE successfulEmbeddings(Tail(embs))

\* the embeddings array of generateEmbeddings once every item has settled,
\* the items in failedItems having failed
SettledEmbeddings(strs, failedItems) ==
  [i \in 1..Len(strs) |-> IF i \in failedItems THEN Null ELSE EmbeddingOf(strs[i])]

\* generateChunkEmbeddings: the loop mapping the embeddings back to the chunks
MapBackToChunks(chunks, embs) ==
  [i \in 1..Min(Len(chunks), Len(embs)) |->
     [chunks[i] EXCEPT !.embedding = embs[i]]]

\* generateChunkEmbeddings(chunks) when the items in failedItems fail
generateChunkEmbeddings(chunks, failedItems) ==
  MapBackToChunks(chunks,
    successfulEmbeddings(SettledEmbeddings([i \in 1..Len(chunks) |-> chunks[i].content],
                                           failedItems)))

----------------------------------------------------------------------------
(* EmbeddingService: a call of generateEmbeddings, made directly or by      *)
(* generateChunkEmbeddings or generateEmbeddingsWithFallback. Indices are   *)
(* counted from 1. An item is the try/catch around one generateEmbedding    *)
(* call; the items of all batches of a group are in flight together and     *)
(* settle in any order.                                                     *)

dimensions == 768

\* new Array(this.dimensions).fill(0)
ZeroVector == <<"zeros", dimensions>>

TextPool == {<<"a">>, <<"b", "\n">>}

TextLists == SeqsUpTo(TextPool, MaxTexts)

Callers == {"generateEmbeddings", "generateChunkEmbeddings", "generateEmbeddingsWithFallback"}

\* the chunks generateChunkEmbeddings is called with, their contents being strs
InputChunks(strs) ==
  [i \in 1..Len(strs) |-> [id |-> i, content |-> strs[i], embedding |-> Null]]

\* the batch that holds the text at index i
BatchOf(i, size) == ((i - 1) \div size) + 1

\* batches.length
NumBatches(n, size) == (n + size - 1) \div size

\* the group of parallel batches that batch b belongs to
GroupOf(b, parallel) == ((b - 1) \div parallel) + 1

\* batch.indices
BatchIndices(b, n, size) == {i \in 1..n : BatchOf(i, size) = b}

BatchesOfGroup(g) ==
  {b \in 1..NumBatches(Len(texts), batchSize) : GroupOf(b, parallelBatches) = g}

\* what an item resolves to: the try/catch turns a failure of generateEmbedding
\* into a fulfilled promise with a null embedding
ItemResult(i, ok) ==
  [status |-> "fulfilled",
   value |-> [index |-> i, embedding |-> IF ok THEN EmbeddingOf(texts[i]) ELSE Null]]

\* the results of Promise.allSettled for the settled items
SettledResult(i) == ItemResult(i, settled[i] = "ok")

\* generateEmbeddingsWithFallback: the result built from what generateEmbeddings
\* returned
FallbackResult(strs, batchEmbeddings) ==
  IF Len(batchEmbeddings) = Len(strs)
  THEN [embeddings |-> batchEmbeddings, failedIndices |-> <<>>]
  ELSE [embeddings |-> [i \in 1..Len(strs) |->
                          IF i <= Len(batchEmbeddings) THEN batchEmbeddings[i]
                          ELSE ZeroVector],
        failedIndices |-> [k \in 1..(Len(strs) - Len(batchEmbeddings)) |->
                             Len(batchEmbeddings) + k]]

\* what the called method does with the array generateEmbeddings returned
CallerResult(c, strs, result) ==
  CASE c = "generateEmbeddings" -> result
    [] c = "generateChunkEmbeddings" -> MapBackToChunks(InputChunks(strs), result)
    [] c = "generateEmbeddingsWithFallback" -> FallbackResult(strs, result)

\* the method is called; generateEmbeddings runs up to the first await, or
\* returns at once for an empty list
StartCall ==
  /\ phase = "idle"
  /\ \E c \in Callers, strs \in TextLists,
        size \in 1..MaxBatchSize, parallel \in 1..MaxParallelBatches :
       /\ caller' = c
       /\ texts' = strs
       /\ batchSize' = size
       /\ parallelBatches' = parallel
       /\ IF strs = <<>>
          THEN /\ phase' = "returned"
               /\ returned' = CallerResult(c, strs, <<>>)
               /\ UNCHANGED <<group, settled, embeddings>>
          ELSE /\ phase' = "running"
               /\ group' = 1
               /\ settled' = [i \in 1..Len(strs) |-> "pending"]
               /\ embeddings' = [i \in 1..Len(strs) |-> Null]
               /\ UNCHANGED returned
  /\ UNCHANGED <<stored, completed, failed>>

\* the item of text i settles: generateEmbedding resolved (ok) or rejected
ItemSettles(i, ok) ==
  /\ phase = "running"
  /\ i \in 1..Len(texts)
  /\ GroupOf(BatchOf(i, batchSize), parallelBatches) = group
  /\ settled[i] = "pending"
  /\ settled' = [settled EXCEPT ![i] = IF ok THEN "ok" ELSE "failed"]
  /\ completed' = IF ok THEN completed + 1 ELSE completed
  /\ failed' = IF ok THEN failed ELSE failed + 1
  /\ UNCHANGED <<caller, texts, batchSize, parallelBatches, phase, group, stored,
                 embeddings, returned>>

\* processBatch(b) after Promise.allSettled: "Store results"
StoreResults(b) ==
  /\ phase = "running"
  /\ b \in BatchesOfGroup(group) \ stored
  /\ \A i \in BatchIndices(b, Len(texts), batchSize) : settled[i] # "pending"
  /\ embeddings' = [i \in 1..Len(texts) |->
                      IF /\ i \in BatchIndices(b, Len(texts), batchSize)
                         /\ SettledResult(i).status = "fulfilled"
                         /\ SettledResult(i).value.embedding # Null
                      THEN SettledResult(i).value.embedding
                      ELSE embeddings[i]]
  /\ stored' = stored \cup {b}
  /\ UNCHANGED <<caller, texts, batchSize, parallelBatches, phase, group, settled,
                 completed, failed, returned>>

\* a loop over the groups that does not await the group
GroupNotAwaited == TRUE

\* await Promise.all(parallelBatches.map(processBatch)) resolves once the
\* processBatch of every batch of the group has resolved
GroupSettled == BatchesOfGroup(group) \subseteq stored

\* Promise.all of the group has resolved: the next group starts, or, after the
\* last group, the successful embeddings are collected and the call returns.
\* generateEmbeddings resolves whatever items have failed, so the catch block
\* of generateEmbeddingsWithFallback is not entered
GroupDone ==
  /\ phase = "running"
  /\ GroupSettled
  /\ IF BatchesOfGroup(group + 1) # {}
     THEN /\ group' = group + 1
          /\ UNCHANGED <<phase, returned>>
     ELSE /\ phase' = "returned"
          /\ returned' = CallerResult(caller, texts, successfulEmbeddings(embeddings))
          /\ UNCHANGED group
  /\ UNCHANGED <<caller, texts, batchSize, parallelBatches, settled, stored,
                 embeddings, completed, failed>>

----------------------------------------------------------------------------
(* EmbeddingService: a call of generateEmbedding(text). The provider may    *)
(* return values, return a response without an embedding, or fail.          *)

retryDelayMs == 250

ProviderOutcomes == {"values", "empty", "error"}

\* a retry guard that allows one attempt too many
RetriesOnceMore(count, limit) == count <= limit

\* if (retryCount < this.maxRetries)
MayRetry(count, limit) == count < limit

\* this.retryDelayMs * Math.pow(2, retryCount)
BackoffDelay(count) == retryDelayMs * 2^count

\* generateEmbedding(text) is called and makes its first provider call
StartEmbedding ==
  /\ promise = "none"
  /\ \E str \in TextPool, limit \in 0..MaxRetryConfig :
       /\ text' = str
       /\ maxRetries' = limit
  /\ retryCount' = 0
  /\ promise' = "calling"
  /\ calls' = 1
  /\ UNCHANGED <<delays, errors, resolvedWith>>

\* model.embedContent settles: the values are returned, or the catch block
\* starts the back-off sleep or throws
ProviderResponds(outcome) ==
  /\ promise = "calling"
  /\ IF outcome = "values"
     THEN /\ promise' = "resolved"
          /\ resolvedWith' = EmbeddingOf(text)
          /\ UNCHANGED <<delays, errors>>
     ELSE /\ errors' = Append(errors, outcome)
          /\ IF MayRetry(retryCount, maxRetries)
             THEN /\ delays' = Append(delays, BackoffDelay(retryCount))
                  /\ promise' = "sleeping"
             ELSE /\ promise' = "rejected"
                  /\ UNCHANGED delays
          /\ UNCHANGED resolvedWith
  /\ UNCHANGED <<text, maxRetries, retryCount, calls>>

\* the sleep is over: generateEmbedding(text, retryCount + 1) makes its call
SleepEnds ==
  /\ promise = "sleeping"
  /\ retryCount' = retryCount + 1
  /\ calls' = calls + 1
  /\ promise' = "calling"
  /\ UNCHANGED <<text, maxRetries, delays, errors, resolvedWith>>

----------------------------------------------------------------------------
(* BackgroundProcessingService *)

maxConcurrentJobs == 2

PENDING == "pending"
UPLOADING == "uploading"
EXTRACTING == "extracting"
CHUNKING == "chunking"
EMBEDDING == "embedding"
INDEXING == "indexing"
COMPLETE == "complete"
FAILED == "failed"
CANCELLED == "cancelled"

\* the batches jobs are created for
JobBatches ==
  {<<PlainFile(<<"a">>), RouteFile(<<"a", " ">>)>>}

NoLocal ==
  [uniqueFiles |-> <<>>, chunks |-> <<>>, embeddedChunks |-> <<>>,
   startHashes |-> EmptyMap, startChunkHashes |-> {}]

\* Math.round(a / b) for a >= 0 and b > 0
Round(a, b) == (2 * a + b) \div (2 * b)

\* a processQueue without its guard
StartsAlways == TRUE

\* a guard that only counts the active jobs
BelowMaxConcurrentJobs == activeJobs < maxConcurrentJobs

\* the guard of processQueue: it returns at once unless this holds
CanStartJob == ~(isProcessing \/ activeJobs >= maxConcurrentJobs)

\* processQueue(), called with job store js, queue q and positions pcs: up to
\* the first await of processJob
ProcessQueue(js, q, pcs) ==
  IF CanStartJob /\ q # <<>> /\ Head(q) \in DOMAIN js \ deletedJobs
  THEN LET jobId == Head(q)
       IN /\ jobQueue' = Tail(q)
          /\ activeJobs' = activeJobs + 1
          /\ isProcessing' = TRUE
          /\ jobs' = [js EXCEPT ![jobId].status = UPLOADING, ![jobId].progress = 5,
                                 ![jobId].emitted = UPLOADING,
                                 ![jobId].statuses = <<UPLOADING>>,
                                 ![jobId].progresses = <<5>>]
          /\ pc' = [pcs EXCEPT ![jobId] = "init"]
          /\ local' = [i \in DOMAIN pcs |->
                         IF i = jobId
                         THEN [NoLocal EXCEPT !.startHashes = documentHashes,
                                              !.startChunkHashes = chunkHashes]
                         ELSE IF i \in DOMAIN local THEN local[i] ELSE NoLocal]
  ELSE /\ jobQueue' = IF CanStartJob /\ q # <<>> THEN Tail(q) ELSE q
       /\ jobs' = js
       /\ pc' = pcs
       /\ local' = [i \in DOMAIN pcs |-> IF i \in DOMAIN local THEN local[i] ELSE NoLocal]
       /\ UNCHANGED <<activeJobs, isProcessing>>

\* createJob(files), as long as fewer than limit jobs were created
createJobWithin(limit) ==
  /\ Len(pc) < limit
  /\ \E files \in JobBatches :
       LET jobId == Len(pc) + 1
           \* ended, error: whether endTime, error are set; emitted: the status
           \* of the latest progress event of the job; statuses, progresses:
           \* the values the latest step of the job has assigned to job.status
           \* and to job.progress, in order; embeddedCounts, indexedCounts: the
           \* values the latest step of the job has assigned to
           \* metadata.chunksEmbedded and to metadata.chunksIndexed, in order
           job == [status |-> PENDING, progress |-> 0, files |-> files,
                   ended |-> FALSE, error |-> FALSE, emitted |-> "none",
                   statuses |-> <<>>, progresses |-> <<>>,
                   duplicatesSkipped |-> 0, chunksCreated |-> 0, filesProcessed |-> 0,
                   chunksEmbedded |-> 0, chunksIndexed |-> 0,
                   embeddedCounts |-> <<>>, indexedCounts |-> <<>>,
                   result |-> NotYet]
       IN ProcessQueue(MapSet(jobs, jobId, job), Append(jobQueue, jobId),
                       Append(pc, "none"))
  /\ UNCHANGED <<timers, deletedJobs, aged, cancelResponse, documentHashes, chunkHashes, now>>

\* createJob(files)
createJob == createJobWithin(MaxJobs)

RECURSIVE RemoveFirst(_, _)
RemoveFirst(q, x) ==
  IF q = <<>> THEN <<>>
  ELSE IF Head(q) = x THEN Tail(q) ELSE <<Head(q)>> \o RemoveFirst(Tail(q), x)

\* a cancelJob that leaves the queue alone
QueueKept(q, jobId) == q

\* cancelJob: the queue after "Remove from queue if pending"
QueueAfterCancel(q, jobId) == RemoveFirst(q, jobId)

\* whether cancelJob(jobId) returns true
cancelJobReturns(jobId) ==
  /\ jobId \in DOMAIN jobs \ deletedJobs
  /\ jobs[jobId].status \notin {COMPLETE, FAILED}

\* cancelJob(jobId) where it has an effect (it returns true)
cancelJob(jobId) ==
  /\ jobId \in DOMAIN jobs \ deletedJobs
  /\ jobs[jobId].status \notin {COMPLETE, FAILED}
  /\ jobs' = [jobs EXCEPT ![jobId].status = CANCELLED, ![jobId].ended = TRUE,
                          ![jobId].progress = 0, ![jobId].emitted = CANCELLED,
                          ![jobId].statuses = <<CANCELLED>>,
                          ![jobId].progresses = <<0>>,
                          ![jobId].embeddedCounts = <<>>,
                          ![jobId].indexedCounts = <<>>]
  /\ jobQueue' = QueueAfterCancel(jobQueue, jobId)
  /\ UNCHANGED <<isProcessing, activeJobs, timers, pc, local, deletedJobs, aged,
                 documentHashes, chunkHashes, now>>

\* the DELETE route of a job: it answers success if cancelJob returns true
\* and with an error (status 400) if not
DeleteJob(jobId) ==
  IF cancelJobReturns(jobId)
  THEN /\ cancelJob(jobId)
       /\ cancelResponse' = "success"
  ELSE /\ cancelResponse' = "error"
       /\ UNCHANGED <<jobs, jobQueue, isProcessing, activeJobs, timers, pc, local,
                      deletedJobs, aged, documentHashes, chunkHashes, now>>

\* the setTimeout callback scheduled by processQueue's finally block
TimerFires ==
  /\ timers > 0
  /\ timers' = timers - 1
  /\ ProcessQueue(jobs, jobQueue, pc)
  /\ UNCHANGED <<deletedJobs, aged, cancelResponse, documentHashes, chunkHashes, now>>

\* processQueue's finally block, run when processJob has settled
Finally ==
  /\ activeJobs' = activeJobs - 1
  /\ isProcessing' = FALSE
  /\ timers' = IF Len(jobQueue) > 0 /\ activeJobs - 1 < maxConcurrentJobs
               THEN timers + 1 ELSE timers
  /\ UNCHANGED jobQueue

\* processJob: initialisation has resolved; Step 2 (duplicate check) and, unless
\* every file is a duplicate, the start of Step 3
InitDone(jobId) ==
  /\ pc[jobId] = "init"
  /\ LET r == filterDuplicateFiles(jobs[jobId].files, documentHashes, now)
     IN /\ documentHashes' = r.documentHashes
        /\ IF r.uniqueFiles = <<>>
           THEN /\ jobs' = [jobs EXCEPT ![jobId].status = COMPLETE,
                                        ![jobId].emitted = COMPLETE,
                                        ![jobId].progress = 100,
                                        ![jobId].statuses = <<EXTRACTING, COMPLETE>>,
                                        ![jobId].progresses = <<10, 100>>,
                                        ![jobId].duplicatesSkipped = Len(r.duplicates),
                                        ![jobId].ended = TRUE,
                                        ![jobId].result = 0]
                /\ pc' = [pc EXCEPT ![jobId] = "done"]
                /\ local' = [local EXCEPT ![jobId] = NoLocal]
                /\ Finally
           ELSE /\ jobs' = [jobs EXCEPT ![jobId].status = CHUNKING,
                                        ![jobId].emitted = CHUNKING,
                                        ![jobId].progress = 20,
                                        ![jobId].statuses = <<EXTRACTING, CHUNKING>>,
                                        ![jobId].progresses = <<10, 20>>,
                                        ![jobId].duplicatesSkipped = Len(r.duplicates)]
                /\ pc' = [pc EXCEPT ![jobId] = "chunk"]
                /\ local' = [local EXCEPT ![jobId].uniqueFiles = r.uniqueFiles]
                /\ UNCHANGED <<jobQueue, isProcessing, activeJobs, timers>>
  /\ UNCHANGED <<deletedJobs, aged, cancelResponse, chunkHashes, now>>

RECURSIVE processFiles(_)
\* textProcessor.processFiles(files)
processFiles(files) ==
  IF files = <<>> THEN <<>>
  ELSE [k \in DOMAIN ChunksOfFile(Head(files)) |->
          [source |-> ChunksOfFile(Head(files))[k].source,
           content |-> ChunksOfFile(Head(files))[k].content,
           embedding |-> Null]]
       \o processFiles(Tail(files))

\* processJob: processFiles has resolved; start of Step 4
ChunkDone(jobId) ==
  /\ pc[jobId] = "chunk"
  /\ LET chunks == processFiles(local[jobId].uniqueFiles)
     IN /\ local' = [local EXCEPT ![jobId].chunks = chunks]
        /\ jobs' = [jobs EXCEPT ![jobId].status = EMBEDDING,
                                ![jobId].emitted = EMBEDDING,
                                ![jobId].progress = 40,
                                ![jobId].statuses = <<EMBEDDING>>,
                                ![jobId].progresses = <<40>>,
                                ![jobId].chunksCreated = Len(chunks)]
  /\ pc' = [pc EXCEPT ![jobId] = "embed"]
  /\ UNCHANGED <<jobQueue, isProcessing, activeJobs, timers, deletedJobs, aged, cancelResponse,
                 documentHashes, chunkHashes, now>>

\* embeddedChunks.filter(chunk => chunk.metadata.source === file.name)
FileChunks(embeddedChunks, file) ==
  LET FromFile(chunk) == chunk.source = file.name
  IN SelectSeq(embeddedChunks, FromFile)

\* processJob Step 6: the registry after the loop over uniqueFiles
RECURSIVE CacheDocuments(_, _, _, _)
CacheDocuments(files, embeddedChunks, dh, t) ==
  IF files = <<>> THEN dh
  ELSE CacheDocuments(Tail(files), embeddedChunks,
         registerDocument(Head(files), FileChunks(embeddedChunks, Head(files)), dh, t), t)

\* processJob Step 6: the chunk-hash set after the loop over uniqueFiles
RECURSIVE CacheChunks(_, _, _)
CacheChunks(files, embeddedChunks, ch) ==
  IF files = <<>> THEN ch
  ELSE CacheChunks(Tail(files), embeddedChunks,
         registerChunks(FileChunks(embeddedChunks, Head(files)), ch))

\* a processJob that registers the files as soon as they are embedded
RegistersAfterEmbedding == "embed"

\* the stage after which processJob registers the job's files in the cache
RegistersAfter == "index"

\* the cache after the stage at position p of job jobId has resolved
CacheAfterStage(jobId, p, embeddedChunks) ==
  IF p = RegistersAfter
  THEN /\ documentHashes' = CacheDocuments(local[jobId].uniqueFiles, embeddedChunks,
                                           documentHashes, now)
       /\ chunkHashes' = CacheChunks(local[jobId].uniqueFiles, embeddedChunks, chunkHashes)
  ELSE UNCHANGED <<documentHashes, chunkHashes>>

\* an embedding progress that counts from 0
ProgressFromZero(current, total) == Round(current * 30, total)

\* the callback processJob passes to generateChunkEmbeddings: job.progress
embeddingProgress(current, total) == Round(40 * total + current * 30, total)

\* the callback processJob passes to indexChunks: job.progress
indexingProgress(sent, total) == Round(70 * total + sent * 25, total)

\* generateEmbeddings, for fewer than 50 texts: the values of completed its
\* progressCallback is called with when, of the total items, the items
\* settling at the turns failedTurns are the failing ones: once per settled
\* item and once more after the group
completedCounts(total, failedTurns) ==
  LET upTo(k) == Cardinality({i \in 1..k : i \notin failedTurns})
  IN [k \in 1..total |-> upTo(k)] \o (IF total = 0 THEN <<>> ELSE <<upTo(total)>>)

\* batchSize of upsertVectors
upsertBatchSize == 150

\* a callback that counts one vector more than were sent
OneMoreThanSent(total) == IF total = 0 THEN <<>> ELSE <<total + 1>>

\* upsertVectors: the values of uploaded its progressCallback is called with
uploadedCounts(total) ==
  [k \in 1..((total + upsertBatchSize - 1) \div upsertBatchSize) |->
     Min(k * upsertBatchSize, total)]

\* the value a field has after the assignments of values, in order
LastOr(values, before) == IF values = <<>> THEN before ELSE values[Len(values)]

\* processJob: generateChunkEmbeddings has resolved; start of Step 5
EmbedDone(jobId) ==
  /\ pc[jobId] = "embed"
  /\ \E failedItems \in SUBSET (1..Len(local[jobId].chunks)) :
     \E failedTurns \in {turns \in SUBSET (1..Len(local[jobId].chunks)) :
                            Cardinality(turns) = Cardinality(failedItems)} :
       LET embeddedChunks == generateChunkEmbeddings(local[jobId].chunks, failedItems)
           total == Len(local[jobId].chunks)
           counts == completedCounts(total, failedTurns)
           callbacks == [k \in 1..Len(counts) |-> embeddingProgress(counts[k], total)]
       IN /\ local' = [local EXCEPT ![jobId].embeddedChunks = embeddedChunks]
          /\ CacheAfterStage(jobId, "embed", embeddedChunks)
          /\ jobs' = [jobs EXCEPT ![jobId].status = INDEXING, ![jobId].progress = 70,
                                  ![jobId].emitted = INDEXING,
                                  ![jobId].statuses = <<INDEXING>>,
                                  ![jobId].progresses = callbacks \o <<70>>,
                                  ![jobId].chunksEmbedded = LastOr(counts, @),
                                  ![jobId].embeddedCounts = counts]
  /\ pc' = [pc EXCEPT ![jobId] = "index"]
  /\ UNCHANGED <<jobQueue, isProcessing, activeJobs, timers, deletedJobs, aged, cancelResponse, now>>

\* processJob: indexChunks has resolved; Steps 6 and 7, then processQueue's
\* finally block
IndexDone(jobId) ==
  /\ pc[jobId] = "index"
  /\ CacheAfterStage(jobId, "index", local[jobId].embeddedChunks)
  /\ jobs' = [jobs EXCEPT ![jobId].status = COMPLETE,
                          ![jobId].emitted = COMPLETE,
                          ![jobId].progress = 100,
                          ![jobId].statuses = <<COMPLETE>>,
                          ![jobId].progresses =
                            LET total == Len(local[jobId].embeddedChunks)
                                counts == uploadedCounts(total)
                            IN [k \in 1..Len(counts) |-> indexingProgress(counts[k], total)]
                               \o <<95, 100>>,
                          ![jobId].ended = TRUE,
                          ![jobId].chunksIndexed =
                            LastOr(uploadedCounts(Len(local[jobId].embeddedChunks)), @),
                          ![jobId].indexedCounts =
                            uploadedCounts(Len(local[jobId].embeddedChunks)),
                          ![jobId].embeddedCounts = <<>>,
                          ![jobId].filesProcessed = Len(local[jobId].uniqueFiles),
                          ![jobId].result = Len(local[jobId].embeddedChunks)]
  /\ pc' = [pc EXCEPT ![jobId] = "done"]
  /\ local' = [local EXCEPT ![jobId] = NoLocal]
  /\ Finally
  /\ UNCHANGED <<deletedJobs, aged, cancelResponse, now>>

\* a catch block that sets the status only
FailedWithoutDetails(job) == [job EXCEPT !.status = FAILED]

\* the catch block of processQueue: the job afterwards
FailedJob(job) ==
  [job EXCEPT !.status = FAILED, !.error = TRUE, !.ended = TRUE, !.emitted = FAILED,
              !.statuses = <<FAILED>>, !.progresses = <<>>, !.embeddedCounts = <<>>]

\* a stage of processJob throws: processJob rethrows, processQueue's catch block
\* marks the job FAILED, then its finally block runs
StageFails(jobId) ==
  /\ pc[jobId] \in {"init", "chunk", "embed", "index"}
  /\ jobs' = [jobs EXCEPT ![jobId] = FailedJob(jobs[jobId])]
  /\ pc' = [pc EXCEPT ![jobId] = "failed"]
  /\ local' = [local EXCEPT ![jobId] = NoLocal]
  /\ Finally
  /\ UNCHANGED <<deletedJobs, aged, cancelResponse, documentHashes, chunkHashes, now>>

\* the jobs in the Map this.jobs
JobsInMap == DOMAIN jobs \ deletedJobs

\* the n oldest of the jobs in S; jobIds grow with startTime
Oldest(S, n) == {j \in S : Cardinality({i \in S : i < j}) < n}

\* the n newest of the jobs in S
Newest(S, n) == {j \in S : Cardinality({i \in S : i > j}) < n}

\* cleanupOldJobs, "Also limit total number of jobs in history": the jobs it
\* deletes from the jobs S left in the Map
OverHistoryLimit(S, n) == Oldest(S, n)

\* time passes until one more job has started more than 24 hours ago
HoursPass ==
  /\ aged < Len(pc)
  /\ aged' = aged + 1
  /\ UNCHANGED <<jobs, deletedJobs, jobQueue, isProcessing, activeJobs, timers, pc, local,
                 cancelResponse, documentHashes, chunkHashes, now>>

\* cleanupOldJobs, the loop over this.jobs.entries(): the jobs it deletes
TooOld == {j \in JobsInMap : j <= aged /\ jobs[j].status \in {COMPLETE, FAILED}}

\* the hourly cleanupOldJobs()
cleanupOldJobs ==
  /\ LET left == JobsInMap \ TooOld
         excess == IF Cardinality(left) > MAX_JOBS_HISTORY
                   THEN Cardinality(left) - MAX_JOBS_HISTORY ELSE 0
     IN deletedJobs' = deletedJobs \cup TooOld \cup OverHistoryLimit(left, excess)
  /\ UNCHANGED <<jobs, jobQueue, isProcessing, activeJobs, timers, pc, local,
                 aged, cancelResponse, documentHashes, chunkHashes, now>>

----------------------------------------------------------------------------
(* RetrieverService.retrieveWithMMR. Scores, similarities and lambda are    *)
(* counted in tenths, so an MMR score is counted in hundredths. The         *)
(* embedding of a candidate is computed from its content: two candidates    *)
(* with the same content have similarity 1, two with different contents     *)
(* have the similarity crossSimilarity of the pair.                         *)

Scores == {2, 5, 9}

Lambdas == {0, 5, 10}

CrossSimilarities == {0 - 5, 0, 5}

\* the index returns its matches by descending score
Descending(list) ==
  \A i \in 1..(Len(list) - 1) : list[i].score >= list[i + 1].score

\* the match lists the index can return when asked for count matches
MatchLists(count) ==
  {list \in SeqsUpTo([content : TextPool, score : Scores], Min(count, MaxMatches)) :
     Descending(list)}

\* the contents of the chunks in the index
Contents == TextPool \cup {<<"c">>}

\* the pairs of different contents
ContentPairs == {{x, y} : x \in Contents, y \in Contents} \ {{x} : x \in Contents}

\* the candidate lists the index can return when asked for count matches
CandidateLists(count) ==
  {list \in SeqsUpTo([content : Contents, score : Scores], Min(count, MaxMatches)) :
     Descending(list)}

\* retrieve(): each match becomes a RetrievalResult; id is its rank in the index
RetrievalResults(matches) ==
  [i \in 1..Len(matches) |->
     [id |-> i, content |-> matches[i].content, score |-> matches[i].score]]

\* Math.min(topK * 3, 100)
candidateCount(k) == Min(k * 3, 100)

\* cosineSimilarity of the embeddings of two results
cosineSimilarity(a, b) ==
  IF a.content = b.content THEN 10 ELSE crossSimilarity[{a.content, b.content}]

Max(a, b) == IF a >= b THEN a ELSE b

\* the inner loop over selected: Math.max(maxSimilarity, similarity), from 0
RECURSIVE maxSimilarity(_, _)
maxSimilarity(candidate, chosen) ==
  IF chosen = <<>> THEN 0
  ELSE Max(maxSimilarity(candidate, SubSeq(chosen, 1, Len(chosen) - 1)),
           cosineSimilarity(candidate, chosen[Len(chosen)]))

diversityScore(candidate, chosen) ==
  IF Len(chosen) > 0 THEN 0 - maxSimilarity(candidate, chosen) ELSE 0

\* lambda * relevanceScore + (1 - lambda) * diversityScore
mmrScore(candidate, chosen, l) ==
  l * candidate.score + (10 - l) * diversityScore(candidate, chosen)

\* -Infinity: below every MMR score
MinusInfinity == 0 - 1000

\* a comparison that lets a later candidate win a tie
AtLeast(score, best) == score >= best

\* if (mmrScore > bestScore)
Better(score, best) == score > best

\* the for loop over remaining, after its first n iterations
RECURSIVE BestAfter(_, _, _, _)
BestAfter(n, rest, chosen, l) ==
  IF n = 0 THEN [bestIndex |-> 1, bestScore |-> MinusInfinity]
  ELSE LET before == BestAfter(n - 1, rest, chosen, l)
           score == mmrScore(rest[n], chosen, l)
       IN IF Better(score, before.bestScore)
          THEN [bestIndex |-> n, bestScore |-> score]
          ELSE before

\* a splice that removes nothing
KeepAt(seq, i) == seq

\* remaining.splice(bestIndex, 1)
RemoveAt(seq, i) == SubSeq(seq, 1, i - 1) \o SubSeq(seq, i + 1, Len(seq))

\* retrieveWithMMR(query, topK, lambda) is called with a topK of at most limit
\* and retrieve() settles: it rejects, or resolves to the candidates
StartMMRUpTo(limit) ==
  /\ mmrPhase = "idle"
  /\ \E k \in 1..limit, l \in Lambdas, s \in [ContentPairs -> CrossSimilarities] :
       /\ topK' = k
       /\ lambda' = l
       /\ crossSimilarity' = s
       /\ \/ /\ mmrPhase' = "rejected"
             /\ UNCHANGED candidates
          \/ \E matches \in CandidateLists(candidateCount(k)) :
               /\ candidates' = RetrievalResults(matches)
               /\ mmrPhase' = IF Len(matches) = 0 THEN "returned" ELSE "embedding"
  /\ UNCHANGED <<selected, remaining>>

StartMMR == StartMMRUpTo(MaxTopK)

\* the query embedding has been generated: the selection starts
QueryEmbedded ==
  /\ mmrPhase = "embedding"
  /\ mmrPhase' = "selecting"
  /\ selected' = <<>>
  /\ remaining' = candidates
  /\ UNCHANGED <<topK, lambda, crossSimilarity, candidates>>

\* one iteration of the while loop, every embedding call in it succeeding
SelectNext ==
  /\ mmrPhase = "selecting"
  /\ Len(selected) < topK /\ Len(remaining) > 0
  /\ LET bestIndex == BestAfter(Len(remaining), remaining, selected, lambda).bestIndex
     IN /\ selected' = Append(selected, remaining[bestIndex])
        /\ remaining' = RemoveAt(remaining, bestIndex)
  /\ UNCHANGED <<topK, lambda, crossSimilarity, candidates, mmrPhase>>

\* the while loop ends: return selected
ReturnSelected ==
  /\ mmrPhase = "selecting"
  /\ ~(Len(selected) < topK /\ Len(remaining) > 0)
  /\ mmrPhase' = "returned"
  /\ UNCHANGED <<topK, lambda, crossSimilarity, candidates, selected, remaining>>

\* a generateEmbedding call rejects (for the query, or inside the loop once
\* something is selected): the catch block rethrows
EmbeddingRejects ==
  /\ \/ mmrPhase = "embedding"
     \/ mmrPhase = "selecting" /\ Len(selected) > 0 /\ Len(selected) < topK
                               /\ Len(remaining) > 0
  /\ mmrPhase' = "rejected"
  /\ UNCHANGED <<topK, lambda, crossSimilarity, candidates, selected, remaining>>

----------------------------------------------------------------------------
(* RerankerService.rerank. Indices are counted from 1.                      *)

\* config.reranker.topN
configTopN == 1

RelevanceScores == {1, 8}

\* topN || this.topN; a topN that was not passed is falsy like 0, and is
\* written 0
rerankTopN(n) == IF n = 0 THEN configTopN ELSE n

\* a slice that keeps every result
EveryResult(list) == list

\* results.slice(0, Math.min(50, results.length))
limitedResults(list) == SubSeq(list, 1, Min(maxInputResults, Len(list)))

\* results.slice(0, n)
FirstN(list, n) == SubSeq(list, 1, Min(n, Len(list)))

\* the catch block returning the whole input
WholeInput(list, n) == list

\* the catch block of rerank: results.slice(0, topN || this.topN)
RerankFallback(list, n) == FirstN(list, rerankTopN(n))

\* the responses of the Cohere API to a request for count of n documents:
\* count distinct indices, each with a relevance score
RerankResponses(n, count) ==
  {r \in [1..count -> [index : 1..n, relevanceScore : RelevanceScores]] :
     \A i, j \in 1..count : i # j => r[i].index # r[j].index}

\* response.results.map(...)
MapResponse(list, response) ==
  [i \in 1..Len(response) |->
     [id |-> list[response[i].index].id,
      content |-> list[response[i].index].content,
      documentId |-> list[response[i].index].documentId,
      rerankedScore |-> response[i].relevanceScore,
      score |-> response[i].relevanceScore]]

\* Array.prototype.sort with (a, b) => b.rerankedScore - a.rerankedScore: a
\* stable sort by descending rerankedScore
RECURSIVE SortByRerankedScore(_)
SortByRerankedScore(list) ==
  IF list = <<>> THEN <<>>
  ELSE LET last == list[Len(list)]
           sorted == SortByRerankedScore(SubSeq(list, 1, Len(list) - 1))
           ahead == {i \in 1..Len(sorted) : sorted[i].rerankedScore >= last.rerankedScore}
       IN SubSeq(sorted, 1, Cardinality(ahead)) \o <<last>>
          \o SubSeq(sorted, Cardinality(ahead) + 1, Len(sorted))

\* the result lists rerank is called with: what retrieval produced
RerankInputs ==
  {[i \in 1..Len(m) |-> [id |-> i, content |-> m[i].content, documentId |-> "d1",
                         score |-> m[i].score]] :
     m \in MatchLists(MaxMatches)}

\* rerank(query, results, topN) is called: it returns [] for no results, or
\* calls the Cohere API
StartRerank ==
  /\ rerankPhase = "idle"
  /\ \E list \in RerankInputs, n \in 0..MaxTopN :
       /\ results' = list
       /\ topN' = n
       /\ rerankPhase' = IF Len(list) = 0 THEN "returned" ELSE "calling"
  /\ rerankReturned' = <<>>
  /\ UNCHANGED <<rerankFailed, rerankedResults>>

\* the Cohere API responds: the results are mapped back and sorted, and the
\* 25 ms sleep starts
CohereResponds ==
  /\ rerankPhase = "calling"
  /\ \E response \in RerankResponses(Len(limitedResults(results)),
                                     Min(rerankTopN(topN), Len(limitedResults(results)))) :
       rerankedResults' = SortByRerankedScore(MapResponse(limitedResults(results), response))
  /\ rerankPhase' = "sleeping"
  /\ UNCHANGED <<results, topN, rerankFailed, rerankReturned>>

\* the sleep is over: return rerankedResults
RerankReturns ==
  /\ rerankPhase = "sleeping"
  /\ rerankReturned' = rerankedResults
  /\ rerankPhase' = "returned"
  /\ UNCHANGED <<results, topN, rerankFailed, rerankedResults>>

\* the Cohere call rejects, or its response has no results array so that the
\* mapping throws: the catch block returns the head of the input
CohereFails ==
  /\ rerankPhase = "calling"
  /\ rerankFailed' = TRUE
  /\ rerankReturned' = RerankFallback(results, topN)
  /\ rerankPhase' = "returned"
  /\ UNCHANGED <<results, topN, rerankedResults>>

----------------------------------------------------------------------------
(* LLMService.generateAnswer and RAGService.query. Times are left out of   *)
(* the metrics; a cost is counted in units of 10^-8 dollars.               *)

Documents == {"d1", "d2"}

\* completion.usage.total_tokens
TokenCounts == {0, 1000}

\* groqRate: 0.69 dollars per million tokens
groqRate == 69

\* getEmbeddingCost(countTokens(question))
embeddingCost == 0

\* baseSearchCost of getRerankingCost: 0.001 dollars
baseSearchCost == 100000

\* useReranking ? getRerankingCost(retrievalResults.length) : 0, without the
\* logarithmic document factor
rerankingCost(useReranking) == IF useReranking THEN baseSearchCost ELSE 0

\* calculateCost(totalTokens).total
calculateCost(totalTokens) == totalTokens * groqRate

\* what the retriever resolves to for a query with this topK: at most topK
\* results, each a chunk of some document
QueryMatches(k) ==
  {[i \in 1..Len(docs) |-> [id |-> i, content |-> <<"a">>, documentId |-> docs[i],
                            score |-> 10 - i]] :
     docs \in SeqsUpTo(Documents, Min(k, MaxQueryTopK))}

\* the Cohere API lists its results by descending relevance
RankedResponses(n, count) ==
  {r \in RerankResponses(n, count) :
     \A i \in 1..(count - 1) : r[i].relevanceScore >= r[i + 1].relevanceScore}

\* citations of prepareContextWithCitations: citationId = index + 1
CitationsOf(list) ==
  [i \in 1..Len(list) |-> [id |-> i, text |-> list[i].content]]

\* the citation ids of the results of document doc, in rank order
RECURSIVE relevantChunks(_, _)
relevantChunks(list, doc) ==
  IF list = <<>> THEN <<>>
  ELSE relevantChunks(SubSeq(list, 1, Len(list) - 1), doc)
       \o (IF list[Len(list)].documentId = doc THEN <<Len(list)>> ELSE <<>>)

\* the keys taken without the sourceMap.has test
RECURSIVE OneSourcePerResult(_)
OneSourcePerResult(list) ==
  IF list = <<>> THEN <<>>
  ELSE Append(OneSourcePerResult(SubSeq(list, 1, Len(list) - 1)), list[Len(list)].documentId)

\* the keys of sourceMap in insertion order
RECURSIVE sourceKeys(_)
sourceKeys(list) ==
  IF list = <<>> THEN <<>>
  ELSE LET keys == sourceKeys(SubSeq(list, 1, Len(list) - 1))
           key == list[Len(list)].documentId
       IN IF \E i \in 1..Len(keys) : keys[i] = key THEN keys ELSE Append(keys, key)

\* sources of prepareContextWithCitations: Array.from(sourceMap.values())
SourcesOf(list) ==
  [i \in 1..Len(sourceKeys(list)) |->
     [id |-> sourceKeys(list)[i], relevantChunks |-> relevantChunks(list, sourceKeys(list)[i])]]

NoMetrics == [tokensUsed |-> 0, costEstimate |-> 0]

\* the catch block of query
ApologyResult ==
  [answer |-> "I apologize, but I encountered an error while processing your query. Please try again.",
   citations |-> <<>>, sources |-> <<>>, retrievalResults |-> <<>>, metrics |-> NoMetrics]

\* the result of query when no results are left
NoAnswerResult ==
  [answer |-> "I don't have enough relevant information in my knowledge base to answer your question.",
   citations |-> <<>>, sources |-> <<>>, retrievalResults |-> <<>>, metrics |-> NoMetrics]

\* a catch block answering like a query without results
CatchWithoutApology == NoAnswerResult

\* what query resolves to when a step throws
QueryCatch == ApologyResult

\* generateAnswer resolving, followed by "Update metrics" of query
GeneratedResult(list, opts, tokens) ==
  [answer |-> "generated",
   citations |-> CitationsOf(list),
   sources |-> SourcesOf(list),
   retrievalResults |-> list,
   metrics |-> IF opts.includeMetrics
               THEN [tokensUsed |-> tokens,
                     costEstimate |-> embeddingCost + calculateCost(tokens)
                                      + rerankingCost(opts.useReranking)]
               ELSE NoMetrics]

NoResult == [answer |-> "none"]

\* query(question, options) is called and awaits the embedding of the question
StartQuery ==
  /\ queryStage = "idle"
  /\ \E mmr \in BOOLEAN, rr \in BOOLEAN, k \in 1..MaxQueryTopK, rk \in 0..MaxTopN,
        im \in BOOLEAN :
       options' = [useMMR |-> mmr, useReranking |-> rr, topK |-> k, rerankedK |-> rk,
                   includeMetrics |-> im]
  /\ queryStage' = "embedding"
  /\ UNCHANGED <<retrievalResults, finalResults, failedSteps, queryResult>>

\* the embedding of the question arrives: retrieve or retrieveWithMMR is called
QuestionEmbedded ==
  /\ queryStage = "embedding"
  /\ queryStage' = "retrieving"
  /\ UNCHANGED <<options, retrievalResults, finalResults, failedSteps, queryResult>>

\* the step before "Check if we have any results" is over with these final
\* results
AfterReranking(final, steps) ==
  /\ finalResults' = final
  /\ failedSteps' = steps
  /\ IF Len(final) = 0
       THEN queryStage' = "resolved" /\ queryResult' = NoAnswerResult
       ELSE queryStage' = "generating" /\ UNCHANGED queryResult

\* the retriever resolves: rerank is called, or the results are cut to
\* rerankedK, and generateAnswer is called unless no results are left
Retrieved ==
  /\ queryStage = "retrieving"
  /\ \E list \in QueryMatches(options.topK) :
       /\ retrievalResults' = list
       /\ IF options.useReranking /\ Len(list) > 0
            THEN /\ queryStage' = "reranking"
                 /\ UNCHANGED <<finalResults, failedSteps, queryResult>>
            ELSE IF ~options.useReranking /\ Len(list) > options.rerankedK
                   THEN AfterReranking(FirstN(list, options.rerankedK), failedSteps)
                   ELSE AfterReranking(list, failedSteps)
  /\ UNCHANGED options

\* rerank resolves to the reranked results
Reranked ==
  /\ queryStage = "reranking"
  /\ \E response \in RankedResponses(Len(limitedResults(retrievalResults)),
                                     Min(rerankTopN(options.rerankedK),
                                         Len(limitedResults(retrievalResults)))) :
       AfterReranking(SortByRerankedScore(MapResponse(limitedResults(retrievalResults),
                                                      response)), failedSteps)
  /\ UNCHANGED <<options, retrievalResults>>

\* the reranking call fails inside rerank, which resolves to its fallback
RerankingFails ==
  /\ queryStage = "reranking"
  /\ AfterReranking(RerankFallback(retrievalResults, options.rerankedK),
                    failedSteps \cup {"reranking"})
  /\ UNCHANGED <<options, retrievalResults>>

\* generateAnswer resolves and query returns its result
Generated ==
  /\ queryStage = "generating"
  /\ \E tokens \in TokenCounts :
       queryResult' = GeneratedResult(finalResults, options, tokens)
  /\ queryStage' = "resolved"
  /\ UNCHANGED <<options, retrievalResults, finalResults, failedSteps>>

\* the awaited call of this stage rejects (for the generation also: the 30 s
\* timeout wins the race): the catch block of query returns
StepFails ==
  /\ queryStage \in {"embedding", "retrieving", "generating"}
  /\ failedSteps' = failedSteps \cup {queryStage}
  /\ queryResult' = QueryCatch
  /\ queryStage' = "resolved"
  /\ UNCHANGED <<options, retrievalResults, finalResults>>

----------------------------------------------------------------------------
(* TextProcessor (textProcessorOptimized.ts). Positions in a text are      *)
(* counted from 0 as in the source; a chunk also records the range         *)
(* [from, to) of docContent its text was cut from, before trimming.        *)

\* text.slice(a, b) for 0 <= a, b <= text.length
Slice(str, a, b) == SubSeq(str, a + 1, b)

\* the lines an uploaded text is made of
LinePool == {<<>>, <<" ", " ">>, <<"a">>, <<"a", " ", "a">>, <<"#", " ", "a">>}

RECURSIVE JoinLines(_)
JoinLines(lines) ==
  IF lines = <<>> THEN <<>>
  ELSE IF Len(lines) = 1 THEN lines[1]
  ELSE lines[1] \o <<"\n">> \o JoinLines(Tail(lines))

UploadedTexts == {JoinLines(lines) : lines \in SeqsUpTo(LinePool, MaxLines) \ {<<>>}}

\* .replace(/\n{3,}/g, '\n\n')
RECURSIVE ReduceNewlines(_)
ReduceNewlines(str) ==
  IF Len(str) < 3 THEN str
  ELSE IF str[1] = "\n" /\ str[2] = "\n" /\ str[3] = "\n" THEN ReduceNewlines(Tail(str))
  ELSE <<Head(str)>> \o ReduceNewlines(Tail(str))

\* .replace(/[ \t]+/g, ' ')
RECURSIVE NormalizeSpaces(_)
NormalizeSpaces(str) ==
  IF Len(str) < 2 THEN str
  ELSE IF str[1] = " " /\ str[2] = " " THEN NormalizeSpaces(Tail(str))
  ELSE <<Head(str)>> \o NormalizeSpaces(Tail(str))

\* cleanText, for texts without "\r" and non-breaking spaces
cleanText(str) == Trim(NormalizeSpaces(ReduceNewlines(str)))

\* the number of words: text.split(/\s+/).filter(word => word.length > 0).length
wordCount(str) ==
  Cardinality({i \in 1..Len(str) : ~IsSpace(str[i]) /\ (i = 1 \/ IsSpace(str[i - 1]))})

\* the characters of /[.,;:!?()\[\]{}"'`]/ other than the quotation marks
PunctuationChars == {".", ",", ";", ":", "!", "?", "(", ")", "[", "]", "{", "}"}

punctuationCount(str) == Cardinality({i \in 1..Len(str) : str[i] \in PunctuationChars})

\* Math.ceil(a / b) for a >= 0, b > 0
CeilDiv(a, b) == (a + b - 1) \div b

\* countTokens by the approximation of the source (the path taken without the
\* tiktoken encoder): max(ceil(words * 1.3 + punctuation * 0.5), ceil(length / 4))
countTokens(str) ==
  Max(CeilDiv(13 * wordCount(str) + 5 * punctuationCount(str), 10), CeilDiv(Len(str), 4))

\* tokensToChars: Math.floor(tokens * 3.5)
tokensToChars(tokens) == (tokens * 7) \div 2

\* config.chunking.separators
separators ==
  << <<"\n", "\n">>, <<"\n">>, <<".", " ">>, <<"!", " ">>, <<"?", " ">>, <<";", " ">>,
     <<",", " ">>, <<" ">>, <<>> >>

\* the largest member of a non-empty set of integers
Largest(S) == CHOOSE x \in S : \A y \in S : y <= x

\* text.lastIndexOf(separator, fromIndex) for fromIndex >= 0
lastIndexOf(str, separator, fromIndex) ==
  LET found == {i \in 0..Min(fromIndex, Len(str) - Len(separator)) :
                  Slice(str, i, i + Len(separator)) = separator}
  IN IF found = {} THEN 0 - 1 ELSE Largest(found)

\* findBestSplitPoint, the loop over the separators from the k-th on: the
\* split point, or -1 if no separator gives one
RECURSIVE SeparatorSplit(_, _, _, _)
SeparatorSplit(str, start, end, k) ==
  IF k > Len(separators) THEN 0 - 1
  ELSE LET lastIndex == lastIndexOf(str, separators[k], end)
       IN IF lastIndex > start /\ lastIndex < end
            THEN lastIndex + Len(separators[k])
            ELSE SeparatorSplit(str, start, end, k + 1)

\* findBestSplitPoint, the word-boundary loop and the last resort
WordBoundarySplit(str, start, end) ==
  LET found == {i \in (start + 1)..end : i < Len(str) /\ str[i + 1] \in {" ", "\n"}}
  IN IF found # {} THEN Largest(found) ELSE end

findBestSplitPoint(str, start, end0) ==
  LET end == Min(end0, Len(str))
  IN IF SeparatorSplit(str, start, end, 1) # 0 - 1
       THEN SeparatorSplit(str, start, end, 1)
       ELSE WordBoundarySplit(str, start, end)

\* whether /^#{1,6}\s+(.+)$/m matches at position p: p starts a line, 1 to 6
\* "#" follow, then whitespace, then a character of a line
HashesAt(str, p) ==
  Largest({k \in 0..(Len(str) - p) : \A i \in 1..k : str[p + i] = "#"})
SpacesAt(str, p) ==
  Largest({k \in 0..(Len(str) - p) : \A i \in 1..k : IsSpace(str[p + i])})
IsHeaderAt(str, p) ==
  /\ p = 0 \/ str[p] = "\n"
  /\ HashesAt(str, p) \in 1..6
  /\ SpacesAt(str, p + HashesAt(str, p)) >= 1
  /\ p + HashesAt(str, p) + SpacesAt(str, p + HashesAt(str, p)) < Len(str)

\* the end of the match at p: the end of the line of the title
HeaderEnd(str, p) ==
  LET title == p + HashesAt(str, p) + SpacesAt(str, p + HashesAt(str, p))
  IN Largest({e \in (title + 1)..Len(str) : \A i \in (title + 1)..e : str[i] # "\n"})

\* content.matchAll(pattern) for the Markdown headers, from position p on: the
\* indices of the matches. The other three patterns need "=", "-" or a digit,
\* which the texts of the model do not contain.
RECURSIVE headerMatches(_, _)
headerMatches(str, p) ==
  IF p >= Len(str) THEN <<>>
  ELSE IF IsHeaderAt(str, p) THEN <<p>> \o headerMatches(str, HeaderEnd(str, p))
  ELSE headerMatches(str, p + 1)

\* extractSections: the whole content as one section when no header is found,
\* otherwise one section per header, from its header to the next one
extractSections(str) ==
  LET matches == headerMatches(str, 0)
  IN IF Len(matches) = 0
       THEN << [content |-> str, position |-> 0, offset |-> 0] >>
       ELSE [i \in 1..Len(matches) |->
               [content |-> Trim(Slice(str, matches[i],
                                       IF i < Len(matches) THEN matches[i + 1] ELSE Len(str))),
                position |-> i - 1,
                offset |-> matches[i]]]

\* the text createTokenBasedChunks is working on
sectionText == docSections[sectionIndex].content

\* addChunk; from and to are the range of docContent the chunk was cut from
NewChunk(str, tokens, from, to) ==
  [content |-> str, chunkIndex |-> chunkIndex, totalChunks |-> 0, tokens |-> tokens,
   from |-> docSections[sectionIndex].offset + from,
   to |-> docSections[sectionIndex].offset + to]

\* "Calculate next position with overlap" without the Math.max
BackByOverlap(position, chunkEnd) == chunkEnd - tokensToChars(chunkOverlap)

\* "Calculate next position with overlap"
NextPosition(position, chunkEnd) ==
  Max(position + 1, chunkEnd - tokensToChars(chunkOverlap))

\* the while condition of createTokenBasedChunks
LoopContinues ==
  /\ currentPosition < Len(sectionText)
  /\ Len(sectionChunks) < maxChunksPerDocument

\* processFile(file) is called: the content is cleaned and split into
\* sections, and createTokenBasedChunks starts on the first section
StartProcessFile ==
  /\ chunkerPhase = "idle"
  /\ \E raw \in UploadedTexts :
       /\ docContent' = cleanText(raw)
       /\ docSections' = extractSections(cleanText(raw))
  /\ sectionIndex' = 1
  /\ currentPosition' = 0
  /\ previousPosition' = 0 - 1
  /\ chunkIndex' = 0
  /\ sectionChunks' = <<>>
  /\ docChunks' = <<>>
  /\ globalChunkIndex' = 0
  /\ iterations' = 0
  /\ chunkerPhase' = "chunking"

\* the end of a loop iteration that added a chunk cut at chunkEnd
Accept(chunk, chunkEnd) ==
  /\ sectionChunks' = Append(sectionChunks, chunk)
  /\ currentPosition' = NextPosition(currentPosition, chunkEnd)
  /\ chunkIndex' = chunkIndex + 1

\* one iteration of the while loop of createTokenBasedChunks
ChunkLoopIteration ==
  /\ chunkerPhase = "chunking"
  /\ LoopContinues
  /\ LET estimatedEnd == Min(currentPosition + tokensToChars(chunkSize), Len(sectionText))
         chunkEnd == findBestSplitPoint(sectionText, currentPosition, estimatedEnd)
         chunkText == Trim(Slice(sectionText, currentPosition, chunkEnd))
         actualTokens == countTokens(chunkText)
         adjustedEnd == findBestSplitPoint(sectionText, currentPosition,
                                           currentPosition + tokensToChars(chunkSize))
         adjustedText == Trim(Slice(sectionText, currentPosition, adjustedEnd))
         adjustedTokens == countTokens(adjustedText)
     IN IF Len(chunkText) = 0 \/ actualTokens < minChunkLength
          THEN /\ currentPosition' = chunkEnd
               /\ UNCHANGED <<chunkIndex, sectionChunks>>
          ELSE IF 2 * actualTokens > 3 * chunkSize
                 THEN IF adjustedTokens >= minChunkLength /\ Len(adjustedText) > 0
                        THEN Accept(NewChunk(adjustedText, adjustedTokens,
                                             currentPosition, adjustedEnd), adjustedEnd)
                        ELSE Accept(NewChunk(chunkText, actualTokens,
                                             currentPosition, chunkEnd), adjustedEnd)
                 ELSE Accept(NewChunk(chunkText, actualTokens, currentPosition, chunkEnd),
                             chunkEnd)
  /\ previousPosition' = currentPosition
  /\ iterations' = iterations + 1
  /\ UNCHANGED <<docContent, docSections, sectionIndex, docChunks, globalChunkIndex,
                 chunkerPhase>>

\* "Update total chunks count"
WithTotalChunks(list) ==
  [i \in 1..Len(list) |-> [list[i] EXCEPT !.totalChunks = Len(list)]]

\* the loop of createTokenBasedChunks is over: totalChunks is written, the
\* chunks are returned to processFile, which goes on with the next section
\* or returns
SectionChunked ==
  /\ chunkerPhase = "chunking"
  /\ ~LoopContinues
  /\ docChunks' = docChunks \o WithTotalChunks(sectionChunks)
  /\ globalChunkIndex' = globalChunkIndex + Len(sectionChunks)
  /\ IF sectionIndex < Len(docSections)
       THEN /\ sectionIndex' = sectionIndex + 1
            /\ currentPosition' = 0
            /\ previousPosition' = 0 - 1
            /\ chunkIndex' = globalChunkIndex + Len(sectionChunks)
            /\ sectionChunks' = <<>>
            /\ iterations' = 0
            /\ UNCHANGED chunkerPhase
       ELSE /\ chunkerPhase' = "done"
            /\ UNCHANGED <<sectionIndex, currentPosition, previousPosition, chunkIndex,
                           sectionChunks, iterations>>
  /\ UNCHANGED <<docContent, docSections>>

----------------------------------------------------------------------------
(* POST /api/upload: the extraction loop and the duplicate filter. The     *)
(* pasted text of a request is left out.                                   *)

\* file.name of the files of a request, by position
FileNames == <<"1.pdf", "2.txt", "3.md">>

\* what textExtractor.extractText does for a file: it rejects (<<>>), or
\* resolves to a text, which may be empty or blank
Extractions == {<<>>, << <<>> >>, << <<" ">> >>, << <<"a">> >>, << <<"b", " ">> >>}

\* the requests: up to MaxFormFiles files
FormData ==
  {[i \in 1..Len(list) |-> [name |-> FileNames[i], extraction |-> list[i]]] :
     list \in SeqsUpTo(Extractions, MaxFormFiles)}

\* extractText resolves for the file, and to a text that is not blank
Extractable(file) ==
  /\ file.extraction # <<>>
  /\ Len(Trim(file.extraction[1])) > 0

\* the UploadedFile pushed for a file whose text was extracted
ExtractedFile(file) ==
  [name |-> file.name, content |-> Trim(file.extraction[1]),
   contentHash |-> SHA256(file.extraction[1])]

\* the request arrives: without files it is answered with status 400
PostUpload ==
  /\ routePhase = "idle"
  /\ \E files \in FormData :
       /\ formFiles' = files
       /\ IF Len(files) = 0
            THEN routePhase' = "responded" /\ routeResponse' = "No files or text content provided"
            ELSE routePhase' = "extracting" /\ routeResponse' = "none"
  /\ filesRead' = 0
  /\ uploadedFiles' = <<>>
  /\ routeUniqueFiles' = <<>>
  /\ UNCHANGED cacheVars

\* the catch block of the extraction loop: the request is answered
FailedToExtract ==
  /\ routePhase' = "responded"
  /\ routeResponse' = "Failed to extract content"
  /\ UNCHANGED <<filesRead, uploadedFiles>>

\* one iteration of the loop over the files
ExtractFile ==
  /\ routePhase = "extracting"
  /\ filesRead < Len(formFiles)
  /\ IF Extractable(formFiles[filesRead + 1])
       THEN /\ uploadedFiles' = Append(uploadedFiles, ExtractedFile(formFiles[filesRead + 1]))
            /\ filesRead' = filesRead + 1
            /\ UNCHANGED <<routePhase, routeResponse>>
       ELSE FailedToExtract
  /\ UNCHANGED <<formFiles, routeUniqueFiles, cacheVars>>

\* the loop is over: the duplicates are filtered out, and the request is
\* answered at once when nothing is left, or once the files were handed to
\* processAndIndexFiles or processInBackground
FilterAndProcess ==
  /\ routePhase = "extracting"
  /\ filesRead = Len(formFiles)
  /\ LET filtered == filterDuplicateFiles(uploadedFiles, documentHashes, now)
     IN /\ routeUniqueFiles' = filtered.uniqueFiles
        /\ documentHashes' = filtered.documentHashes
        /\ routeResponse' = IF Len(filtered.uniqueFiles) = 0
                              THEN "All files were already processed (duplicates)"
                              ELSE "processed"
  /\ routePhase' = "responded"
  /\ UNCHANGED <<formFiles, filesRead, uploadedFiles, chunkHashes, now>>

----------------------------------------------------------------------------
(* CircuitBreaker. An execute call runs up to the await of its operation  *)
(* in one step; the operation settles in a later step, in any order with   *)
(* the other calls.                                                        *)

Executes == 1..MaxExecutes

\* Date.now() - this.lastFailureTime >= this.timeout
TimeoutReached == breakerClock - lastFailureTime >= timeout

\* Date.now() - this.lastFailureTime > this.timeout
TimeoutElapsed == breakerClock - lastFailureTime > timeout

\* execute, up to the throw of SERVICE_UNAVAILABLE or the call of operation()
execute(c) ==
  /\ operations[c] = "none"
  /\ IF breakerState = "OPEN" /\ ~TimeoutElapsed
       THEN /\ operations' = [operations EXCEPT ![c] = "SERVICE_UNAVAILABLE"]
            /\ UNCHANGED <<breakerState, trial>>
       ELSE /\ operations' = [operations EXCEPT ![c] = "invoked"]
            /\ breakerState' = IF breakerState = "OPEN" THEN "HALF_OPEN" ELSE breakerState
            /\ trial' = IF breakerState = "OPEN" THEN c ELSE trial
  /\ UNCHANGED <<failures, lastFailureTime, breakerClock>>

\* the operation of call c resolves: onSuccess
onSuccess(c) ==
  /\ operations[c] = "invoked"
  /\ operations' = [operations EXCEPT ![c] = "resolved"]
  /\ failures' = 0
  /\ breakerState' = "CLOSED"
  /\ UNCHANGED <<lastFailureTime, breakerClock, trial>>

\* the operation of call c throws or rejects: onFailure
onFailure(c) ==
  /\ operations[c] = "invoked"
  /\ operations' = [operations EXCEPT ![c] = "rejected"]
  /\ failures' = failures + 1
  /\ lastFailureTime' = breakerClock
  /\ breakerState' = IF failures + 1 >= threshold THEN "OPEN" ELSE breakerState
  /\ UNCHANGED <<breakerClock, trial>>

\* a millisecond of the scaled clock passes
BreakerTimePasses ==
  /\ breakerClock < MaxBreakerClock
  /\ breakerClock' = breakerClock + 1
  /\ UNCHANGED <<breakerState, failures, lastFailureTime, operations, trial>>

-----------------------------------------------------------------------------
(* The console.log capture of POST /api/upload and of processInBackground. *)
(* console.log is a global of the process; each run saves the function it  *)
(* finds, installs its own wrapper and puts the saved one back in finally. *)

Runs == 1..MaxRuns

\* the console.log of the process before any run has wrapped it
Original == 0

\* const originalConsoleLog = console.log; console.log = (...args) => {...}
StartCapture(r) ==
  /\ capture[r] = "idle"
  /\ originalConsoleLog' = [originalConsoleLog EXCEPT ![r] = consoleLog]
  /\ consoleLog' = r
  /\ capture' = [capture EXCEPT ![r] = "capturing"]

\* processAndIndexFiles settles; finally { console.log = originalConsoleLog }
FinishCapture(r, outcome) ==
  /\ capture[r] = "capturing"
  /\ consoleLog' = originalConsoleLog[r]
  /\ capture' = [capture EXCEPT ![r] = outcome]
  /\ UNCHANGED originalConsoleLog

-----------------------------------------------------------------------------
(* Specifications *)

CacheInit ==
  /\ documentHashes = EmptyMap
  /\ chunkHashes = {}
  /\ now = 0

CallIdle ==
  /\ lastBatch = <<>>
  /\ hashesBefore = EmptyMap
  /\ checkedAt = 0
  /\ uniqueFiles = <<>>
  /\ duplicates = <<>>
  /\ indexed = FALSE
  /\ lastRegistered = [c \in {Trim(f.content) : f \in Files} |-> NotYet]

JobsInit ==
  /\ jobs = EmptyMap
  /\ deletedJobs = {}
  /\ jobQueue = <<>>
  /\ isProcessing = FALSE
  /\ activeJobs = 0
  /\ timers = 0
  /\ pc = <<>>
  /\ local = <<>>
  /\ aged = 0
  /\ cancelResponse = "none"

EmbedIdle ==
  /\ caller = "none"
  /\ texts = <<>>
  /\ batchSize = 1
  /\ parallelBatches = 1
  /\ phase = "idle"
  /\ group = 0
  /\ settled = <<>>
  /\ stored = {}
  /\ embeddings = <<>>
  /\ completed = 0
  /\ failed = 0
  /\ returned = <<>>

RetryIdle ==
  /\ text = <<>>
  /\ maxRetries = 0
  /\ retryCount = 0
  /\ promise = "none"
  /\ calls = 0
  /\ delays = <<>>
  /\ errors = <<>>
  /\ resolvedWith = <<>>

MMRIdle ==
  /\ topK = 1
  /\ lambda = 10
  /\ crossSimilarity = [p \in ContentPairs |-> 0]
  /\ candidates = <<>>
  /\ selected = <<>>
  /\ remaining = <<>>
  /\ mmrPhase = "idle"

RerankIdle ==
  /\ results = <<>>
  /\ topN = 0
  /\ rerankPhase = "idle"
  /\ rerankFailed = FALSE
  /\ rerankedResults = <<>>
  /\ rerankReturned = <<>>

QueryIdle ==
  /\ options = [useMMR |-> TRUE, useReranking |-> TRUE, topK |-> 1, rerankedK |-> 1,
                includeMetrics |-> TRUE]
  /\ queryStage = "idle"
  /\ retrievalResults = <<>>
  /\ finalResults = <<>>
  /\ failedSteps = {}
  /\ queryResult = NoResult

ChunkIdle ==
  /\ docContent = <<>>
  /\ docSections = <<>>
  /\ sectionIndex = 1
  /\ currentPosition = 0
  /\ previousPosition = 0 - 1
  /\ chunkIndex = 0
  /\ sectionChunks = <<>>
  /\ docChunks = <<>>
  /\ globalChunkIndex = 0
  /\ iterations = 0
  /\ chunkerPhase = "idle"

UploadIdle ==
  /\ formFiles = <<>>
  /\ filesRead = 0
  /\ uploadedFiles = <<>>
  /\ routeUniqueFiles = <<>>
  /\ routePhase = "idle"
  /\ routeResponse = "none"

BreakerIdle ==
  /\ breakerState = "CLOSED"
  /\ failures = 0
  /\ lastFailureTime = 0
  /\ breakerClock = 0
  /\ operations = [c \in Executes |-> "none"]
  /\ trial = 0

ConsoleIdle ==
  /\ consoleLog = Original
  /\ originalConsoleLog = [r \in Runs |-> Original]
  /\ capture = [r \in Runs |-> "idle"]

(* SpecCache: the cache driven directly, as the ingestion path drives it:  *)
(* a batch is filtered, and its unique files are registered once indexed.  *)

InitCache == CacheInit /\ CallIdle /\ JobsInit /\ EmbedIdle /\ RetryIdle /\ MMRIdle /\ RerankIdle /\ QueryIdle /\ ChunkIdle /\ UploadIdle /\ BreakerIdle /\ ConsoleIdle

\* a call of filterDuplicateFiles(batch)
CallFilter ==
  \E batch \in Batches :
    LET r == filterDuplicateFiles(batch, documentHashes, now)
    IN /\ lastBatch' = batch
       /\ hashesBefore' = documentHashes
       /\ checkedAt' = now
       /\ uniqueFiles' = r.uniqueFiles
       /\ duplicates' = r.duplicates
       /\ documentHashes' = r.documentHashes
       /\ indexed' = FALSE
       /\ UNCHANGED <<chunkHashes, now, lastRegistered>>

\* registerProcessedDocument for every file the last filter call found unique,
\* once its chunks are indexed
CallRegister ==
  /\ uniqueFiles # <<>>
  /\ ~indexed
  /\ documentHashes' = CacheDocuments(uniqueFiles, processFiles(uniqueFiles),
                                      documentHashes, now)
  /\ chunkHashes' = CacheChunks(uniqueFiles, processFiles(uniqueFiles), chunkHashes)
  /\ lastRegistered' = [c \in DOMAIN lastRegistered |->
                          IF \E i \in 1..Len(uniqueFiles) : Trim(uniqueFiles[i].content) = c
                          THEN now ELSE lastRegistered[c]]
  /\ indexed' = TRUE
  /\ UNCHANGED <<now, lastBatch, hashesBefore, checkedAt, uniqueFiles, duplicates>>

\* a call of cleanupExpiredEntries()
CallCleanup ==
  LET r == cleanupExpiredEntries(documentHashes, chunkHashes, now)
  IN /\ documentHashes' = r.documentHashes
     /\ chunkHashes' = r.chunkHashes
     /\ UNCHANGED <<now, lastBatch, hashesBefore, checkedAt, uniqueFiles, duplicates,
                    indexed, lastRegistered>>

NextCache ==
  \/ (CallFilter /\ UNCHANGED <<jobVars, embedVars, retryVars, mmrVars, rerankVars, queryVars, chunkVars, uploadVars, breakerVars, consoleVars>>)
  \/ (CallCleanup /\ UNCHANGED <<jobVars, embedVars, retryVars, mmrVars, rerankVars, queryVars, chunkVars, uploadVars, breakerVars, consoleVars>>)
  \/ (CallRegister /\ UNCHANGED <<jobVars, embedVars, retryVars, mmrVars, rerankVars, queryVars, chunkVars, uploadVars, breakerVars, consoleVars>>)
  \/ (AdvanceClock /\ UNCHANGED <<callVars, jobVars, embedVars, retryVars, mmrVars, rerankVars, queryVars, chunkVars, uploadVars, breakerVars, consoleVars>>)

SpecCache == InitCache /\ [][NextCache]_vars

(* SpecEmbed: one call of generateEmbeddings, generateChunkEmbeddings or    *)
(* generateEmbeddingsWithFallback                                          *)

InitEmbed == CacheInit /\ CallIdle /\ JobsInit /\ EmbedIdle /\ RetryIdle /\ MMRIdle /\ RerankIdle /\ QueryIdle /\ ChunkIdle /\ UploadIdle /\ BreakerIdle /\ ConsoleIdle

NextEmbed ==
  \/ (StartCall /\ UNCHANGED <<cacheVars, callVars, jobVars, retryVars, mmrVars, rerankVars, queryVars, chunkVars, uploadVars, breakerVars, consoleVars>>)
  \/ (\E i \in 1..MaxTexts, ok \in BOOLEAN :
        ItemSettles(i, ok) /\ UNCHANGED <<cacheVars, callVars, jobVars, retryVars, mmrVars, rerankVars, queryVars, chunkVars, uploadVars, breakerVars, consoleVars>>)
  \/ (\E b \in 1..MaxTexts :
        StoreResults(b) /\ UNCHANGED <<cacheVars, callVars, jobVars, retryVars, mmrVars, rerankVars, queryVars, chunkVars, uploadVars, breakerVars, consoleVars>>)
  \/ (GroupDone /\ UNCHANGED <<cacheVars, callVars, jobVars, retryVars, mmrVars, rerankVars, queryVars, chunkVars, uploadVars, breakerVars, consoleVars>>)

SpecEmbed == InitEmbed /\ [][NextEmbed]_vars

(* SpecRetry: one call of generateEmbedding *)

InitRetry == CacheInit /\ CallIdle /\ JobsInit /\ EmbedIdle /\ RetryIdle /\ MMRIdle /\ RerankIdle /\ QueryIdle /\ ChunkIdle /\ UploadIdle /\ BreakerIdle /\ ConsoleIdle

NextRetry ==
  \/ (StartEmbedding /\ UNCHANGED <<cacheVars, callVars, jobVars, embedVars, mmrVars, rerankVars, queryVars, chunkVars, uploadVars, breakerVars, consoleVars>>)
  \/ (\E outcome \in ProviderOutcomes :
        ProviderResponds(outcome) /\ UNCHANGED <<cacheVars, callVars, jobVars, embedVars, mmrVars, rerankVars, queryVars, chunkVars, uploadVars, breakerVars, consoleVars>>)
  \/ (SleepEnds /\ UNCHANGED <<cacheVars, callVars, jobVars, embedVars, mmrVars, rerankVars, queryVars, chunkVars, uploadVars, breakerVars, consoleVars>>)

SpecRetry == InitRetry /\ [][NextRetry]_vars

(* SpecJobs: the job orchestrator with the cache it uses *)

InitJobs == CacheInit /\ CallIdle /\ JobsInit /\ EmbedIdle /\ RetryIdle /\ MMRIdle /\ RerankIdle /\ QueryIdle /\ ChunkIdle /\ UploadIdle /\ BreakerIdle /\ ConsoleIdle

NextJobs ==
  \/ (createJob /\ UNCHANGED <<callVars, embedVars, retryVars, mmrVars, rerankVars, queryVars, chunkVars, uploadVars, breakerVars, consoleVars>>)
  \/ (\E jobId \in 1..MaxJobs : cancelJob(jobId) /\ UNCHANGED <<cancelResponse, callVars, embedVars, retryVars, mmrVars, rerankVars, queryVars, chunkVars, uploadVars, breakerVars, consoleVars>>)
  \/ (TimerFires /\ UNCHANGED <<callVars, embedVars, retryVars, mmrVars, rerankVars, queryVars, chunkVars, uploadVars, breakerVars, consoleVars>>)
  \/ (\E jobId \in DOMAIN pc : InitDone(jobId) /\ UNCHANGED <<callVars, embedVars, retryVars, mmrVars, rerankVars, queryVars, chunkVars, uploadVars, breakerVars, consoleVars>>)
  \/ (\E jobId \in DOMAIN pc : ChunkDone(jobId) /\ UNCHANGED <<callVars, embedVars, retryVars, mmrVars, rerankVars, queryVars, chunkVars, uploadVars, breakerVars, consoleVars>>)
  \/ (\E jobId \in DOMAIN pc : EmbedDone(jobId) /\ UNCHANGED <<callVars, embedVars, retryVars, mmrVars, rerankVars, queryVars, chunkVars, uploadVars, breakerVars, consoleVars>>)
  \/ (\E jobId \in DOMAIN pc : IndexDone(jobId) /\ UNCHANGED <<callVars, embedVars, retryVars, mmrVars, rerankVars, queryVars, chunkVars, uploadVars, breakerVars, consoleVars>>)
  \/ (\E jobId \in DOMAIN pc : StageFails(jobId) /\ UNCHANGED <<callVars, embedVars, retryVars, mmrVars, rerankVars, queryVars, chunkVars, uploadVars, breakerVars, consoleVars>>)
  \/ (AdvanceClock /\ UNCHANGED <<callVars, jobVars, embedVars, retryVars, mmrVars, rerankVars, queryVars, chunkVars, uploadVars, breakerVars, consoleVars>>)

SpecJobs == InitJobs /\ [][NextJobs]_vars

\* the orchestrator while the clock stands still: no registry entry expires
InitStages == CacheInit /\ CallIdle /\ JobsInit /\ EmbedIdle /\ RetryIdle /\ MMRIdle /\ RerankIdle /\ QueryIdle /\ ChunkIdle /\ UploadIdle /\ BreakerIdle /\ ConsoleIdle

NextStages ==
  \/ (createJob /\ UNCHANGED <<callVars, embedVars, retryVars, mmrVars, rerankVars, queryVars, chunkVars, uploadVars, breakerVars, consoleVars>>)
  \/ (\E jobId \in 1..MaxJobs : cancelJob(jobId) /\ UNCHANGED <<cancelResponse, callVars, embedVars, retryVars, mmrVars, rerankVars, queryVars, chunkVars, uploadVars, breakerVars, consoleVars>>)
  \/ (TimerFires /\ UNCHANGED <<callVars, embedVars, retryVars, mmrVars, rerankVars, queryVars, chunkVars, uploadVars, breakerVars, consoleVars>>)
  \/ (\E jobId \in DOMAIN pc : InitDone(jobId) /\ UNCHANGED <<callVars, embedVars, retryVars, mmrVars, rerankVars, queryVars, chunkVars, uploadVars, breakerVars, consoleVars>>)
  \/ (\E jobId \in DOMAIN pc : ChunkDone(jobId) /\ UNCHANGED <<callVars, embedVars, retryVars, mmrVars, rerankVars, queryVars, chunkVars, uploadVars, breakerVars, consoleVars>>)
  \/ (\E jobId \in DOMAIN pc : EmbedDone(jobId) /\ UNCHANGED <<callVars, embedVars, retryVars, mmrVars, rerankVars, queryVars, chunkVars, uploadVars, breakerVars, consoleVars>>)
  \/ (\E jobId \in DOMAIN pc : IndexDone(jobId) /\ UNCHANGED <<callVars, embedVars, retryVars, mmrVars, rerankVars, queryVars, chunkVars, uploadVars, breakerVars, consoleVars>>)
  \/ (\E jobId \in DOMAIN pc : StageFails(jobId) /\ UNCHANGED <<callVars, embedVars, retryVars, mmrVars, rerankVars, queryVars, chunkVars, uploadVars, breakerVars, consoleVars>>)

SpecStages == InitStages /\ [][NextStages]_vars

\* the orchestrator running up to MaxExpiringJobs jobs while time passes
InitExpiry == CacheInit /\ CallIdle /\ JobsInit /\ EmbedIdle /\ RetryIdle /\ MMRIdle /\ RerankIdle /\ QueryIdle /\ ChunkIdle /\ UploadIdle /\ BreakerIdle /\ ConsoleIdle

NextExpiry ==
  \/ (createJobWithin(MaxExpiringJobs) /\ UNCHANGED <<callVars, embedVars, retryVars, mmrVars, rerankVars, queryVars, chunkVars, uploadVars, breakerVars, consoleVars>>)
  \/ (\E jobId \in 1..MaxJobs : cancelJob(jobId) /\ UNCHANGED <<cancelResponse, callVars, embedVars, retryVars, mmrVars, rerankVars, queryVars, chunkVars, uploadVars, breakerVars, consoleVars>>)
  \/ (TimerFires /\ UNCHANGED <<callVars, embedVars, retryVars, mmrVars, rerankVars, queryVars, chunkVars, uploadVars, breakerVars, consoleVars>>)
  \/ (\E jobId \in DOMAIN pc : InitDone(jobId) /\ UNCHANGED <<callVars, embedVars, retryVars, mmrVars, rerankVars, queryVars, chunkVars, uploadVars, breakerVars, consoleVars>>)
  \/ (\E jobId \in DOMAIN pc : ChunkDone(jobId) /\ UNCHANGED <<callVars, embedVars, retryVars, mmrVars, rerankVars, queryVars, chunkVars, uploadVars, breakerVars, consoleVars>>)
  \/ (\E jobId \in DOMAIN pc : EmbedDone(jobId) /\ UNCHANGED <<callVars, embedVars, retryVars, mmrVars, rerankVars, queryVars, chunkVars, uploadVars, breakerVars, consoleVars>>)
  \/ (\E jobId \in DOMAIN pc : IndexDone(jobId) /\ UNCHANGED <<callVars, embedVars, retryVars, mmrVars, rerankVars, queryVars, chunkVars, uploadVars, breakerVars, consoleVars>>)
  \/ (\E jobId \in DOMAIN pc : StageFails(jobId) /\ UNCHANGED <<callVars, embedVars, retryVars, mmrVars, rerankVars, queryVars, chunkVars, uploadVars, breakerVars, consoleVars>>)
  \/ (AdvanceClock /\ UNCHANGED <<callVars, jobVars, embedVars, retryVars, mmrVars, rerankVars, queryVars, chunkVars, uploadVars, breakerVars, consoleVars>>)

SpecExpiry == InitExpiry /\ [][NextExpiry]_vars

(* SpecMMR: one call of retrieveWithMMR *)

InitMMR == CacheInit /\ CallIdle /\ JobsInit /\ EmbedIdle /\ RetryIdle /\ MMRIdle /\ RerankIdle /\ QueryIdle /\ ChunkIdle /\ UploadIdle /\ BreakerIdle /\ ConsoleIdle

NextMMR ==
  \/ (StartMMR /\ UNCHANGED <<cacheVars, callVars, jobVars, embedVars, retryVars, rerankVars, queryVars, chunkVars, uploadVars, breakerVars, consoleVars>>)
  \/ (QueryEmbedded /\ UNCHANGED <<cacheVars, callVars, jobVars, embedVars, retryVars, rerankVars, queryVars, chunkVars, uploadVars, breakerVars, consoleVars>>)
  \/ (SelectNext /\ UNCHANGED <<cacheVars, callVars, jobVars, embedVars, retryVars, rerankVars, queryVars, chunkVars, uploadVars, breakerVars, consoleVars>>)
  \/ (ReturnSelected /\ UNCHANGED <<cacheVars, callVars, jobVars, embedVars, retryVars, rerankVars, queryVars, chunkVars, uploadVars, breakerVars, consoleVars>>)
  \/ (EmbeddingRejects /\ UNCHANGED <<cacheVars, callVars, jobVars, embedVars, retryVars, rerankVars, queryVars, chunkVars, uploadVars, breakerVars, consoleVars>>)

SpecMMR == InitMMR /\ [][NextMMR]_vars

\* retrieveWithMMR with a topK of up to MaxSelections
InitDiverse == CacheInit /\ CallIdle /\ JobsInit /\ EmbedIdle /\ RetryIdle /\ MMRIdle /\ RerankIdle /\ QueryIdle /\ ChunkIdle /\ UploadIdle /\ BreakerIdle /\ ConsoleIdle

NextDiverse ==
  \/ (StartMMRUpTo(MaxSelections) /\ UNCHANGED <<cacheVars, callVars, jobVars, embedVars, retryVars, rerankVars, queryVars, chunkVars, uploadVars, breakerVars, consoleVars>>)
  \/ (QueryEmbedded /\ UNCHANGED <<cacheVars, callVars, jobVars, embedVars, retryVars, rerankVars, queryVars, chunkVars, uploadVars, breakerVars, consoleVars>>)
  \/ (SelectNext /\ UNCHANGED <<cacheVars, callVars, jobVars, embedVars, retryVars, rerankVars, queryVars, chunkVars, uploadVars, breakerVars, consoleVars>>)
  \/ (ReturnSelected /\ UNCHANGED <<cacheVars, callVars, jobVars, embedVars, retryVars, rerankVars, queryVars, chunkVars, uploadVars, breakerVars, consoleVars>>)
  \/ (EmbeddingRejects /\ UNCHANGED <<cacheVars, callVars, jobVars, embedVars, retryVars, rerankVars, queryVars, chunkVars, uploadVars, breakerVars, consoleVars>>)

SpecDiverse == InitDiverse /\ [][NextDiverse]_vars

(* SpecQueue: the job queue with the hourly cleanup, under the assumption   *)
(* that every stage call settles and every scheduled timer fires            *)

InitQueue == CacheInit /\ CallIdle /\ JobsInit /\ EmbedIdle /\ RetryIdle /\ MMRIdle /\ RerankIdle /\ QueryIdle /\ ChunkIdle /\ UploadIdle /\ BreakerIdle /\ ConsoleIdle

\* the awaited stage call of job jobId settles
StageSettles(jobId) ==
  \/ InitDone(jobId)
  \/ ChunkDone(jobId)
  \/ EmbedDone(jobId)
  \/ IndexDone(jobId)
  \/ StageFails(jobId)

NextQueue ==
  \/ (createJob /\ UNCHANGED <<callVars, embedVars, retryVars, mmrVars, rerankVars, queryVars, chunkVars, uploadVars, breakerVars, consoleVars>>)
  \/ (\E jobId \in 1..MaxJobs : cancelJob(jobId) /\ UNCHANGED <<cancelResponse, callVars, embedVars, retryVars, mmrVars, rerankVars, queryVars, chunkVars, uploadVars, breakerVars, consoleVars>>)
  \/ (TimerFires /\ UNCHANGED <<callVars, embedVars, retryVars, mmrVars, rerankVars, queryVars, chunkVars, uploadVars, breakerVars, consoleVars>>)
  \/ (\E jobId \in DOMAIN pc : StageSettles(jobId) /\ UNCHANGED <<callVars, embedVars, retryVars, mmrVars, rerankVars, queryVars, chunkVars, uploadVars, breakerVars, consoleVars>>)
  \/ (cleanupOldJobs /\ UNCHANGED <<callVars, embedVars, retryVars, mmrVars, rerankVars, queryVars, chunkVars, uploadVars, breakerVars, consoleVars>>)
  \/ (HoursPass /\ UNCHANGED <<callVars, embedVars, retryVars, mmrVars, rerankVars, queryVars, chunkVars, uploadVars, breakerVars, consoleVars>>)

FairQueue ==
  /\ WF_vars(TimerFires /\ UNCHANGED <<callVars, embedVars, retryVars, mmrVars, rerankVars, queryVars, chunkVars, uploadVars, breakerVars, consoleVars>>)
  /\ \A jobId \in 1..MaxJobs :
       WF_vars(jobId \in DOMAIN pc /\ StageSettles(jobId) /\ UNCHANGED <<callVars, embedVars, retryVars, mmrVars, rerankVars, queryVars, chunkVars, uploadVars, breakerVars, consoleVars>>)

SpecQueue == InitQueue /\ [][NextQueue]_vars /\ FairQueue

\* the queue and the sweep without cancellations
InitSweep == CacheInit /\ CallIdle /\ JobsInit /\ EmbedIdle /\ RetryIdle /\ MMRIdle /\ RerankIdle /\ QueryIdle /\ ChunkIdle /\ UploadIdle /\ BreakerIdle /\ ConsoleIdle

NextSweep ==
  \/ (createJob /\ UNCHANGED <<callVars, embedVars, retryVars, mmrVars, rerankVars, queryVars, chunkVars, uploadVars, breakerVars, consoleVars>>)
  \/ (TimerFires /\ UNCHANGED <<callVars, embedVars, retryVars, mmrVars, rerankVars, queryVars, chunkVars, uploadVars, breakerVars, consoleVars>>)
  \/ (\E jobId \in DOMAIN pc : StageSettles(jobId) /\ UNCHANGED <<callVars, embedVars, retryVars, mmrVars, rerankVars, queryVars, chunkVars, uploadVars, breakerVars, consoleVars>>)
  \/ (cleanupOldJobs /\ UNCHANGED <<callVars, embedVars, retryVars, mmrVars, rerankVars, queryVars, chunkVars, uploadVars, breakerVars, consoleVars>>)
  \/ (HoursPass /\ UNCHANGED <<callVars, embedVars, retryVars, mmrVars, rerankVars, queryVars, chunkVars, uploadVars, breakerVars, consoleVars>>)

SpecSweep == InitSweep /\ [][NextSweep]_vars

(* SpecCancel: the job orchestrator with its jobs cancelled through the     *)
(* DELETE route                                                             *)

InitCancel == CacheInit /\ CallIdle /\ JobsInit /\ EmbedIdle /\ RetryIdle /\ MMRIdle /\ RerankIdle /\ QueryIdle /\ ChunkIdle /\ UploadIdle /\ BreakerIdle /\ ConsoleIdle

NextCancel ==
  \/ (createJob /\ UNCHANGED <<callVars, embedVars, retryVars, mmrVars, rerankVars, queryVars, chunkVars, uploadVars, breakerVars, consoleVars>>)
  \/ (\E jobId \in 1..MaxJobs : DeleteJob(jobId) /\ UNCHANGED <<callVars, embedVars, retryVars, mmrVars, rerankVars, queryVars, chunkVars, uploadVars, breakerVars, consoleVars>>)
  \/ (TimerFires /\ UNCHANGED <<callVars, embedVars, retryVars, mmrVars, rerankVars, queryVars, chunkVars, uploadVars, breakerVars, consoleVars>>)
  \/ (\E jobId \in DOMAIN pc : StageSettles(jobId) /\ UNCHANGED <<callVars, embedVars, retryVars, mmrVars, rerankVars, queryVars, chunkVars, uploadVars, breakerVars, consoleVars>>)

SpecCancel == InitCancel /\ [][NextCancel]_vars

(* SpecOrder: the job queue with the hourly cleanup, jobs being created and *)
(* never cancelled                                                          *)

InitOrder == CacheInit /\ CallIdle /\ JobsInit /\ EmbedIdle /\ RetryIdle /\ MMRIdle /\ RerankIdle /\ QueryIdle /\ ChunkIdle /\ UploadIdle /\ BreakerIdle /\ ConsoleIdle

NextOrder ==
  \/ (createJobWithin(MaxQueuedJobs) /\ UNCHANGED <<callVars, embedVars, retryVars, mmrVars, rerankVars, queryVars, chunkVars, uploadVars, breakerVars, consoleVars>>)
  \/ (TimerFires /\ UNCHANGED <<callVars, embedVars, retryVars, mmrVars, rerankVars, queryVars, chunkVars, uploadVars, breakerVars, consoleVars>>)
  \/ (\E jobId \in DOMAIN pc : StageSettles(jobId) /\ UNCHANGED <<callVars, embedVars, retryVars, mmrVars, rerankVars, queryVars, chunkVars, uploadVars, breakerVars, consoleVars>>)
  \/ (cleanupOldJobs /\ UNCHANGED <<callVars, embedVars, retryVars, mmrVars, rerankVars, queryVars, chunkVars, uploadVars, breakerVars, consoleVars>>)

SpecOrder == InitOrder /\ [][NextOrder]_vars

(* SpecRerank: one call of rerank *)

\* the upload route answering one request
InitUpload == CacheInit /\ CallIdle /\ JobsInit /\ EmbedIdle /\ RetryIdle /\ MMRIdle /\ RerankIdle /\ QueryIdle /\ ChunkIdle /\ UploadIdle /\ BreakerIdle /\ ConsoleIdle

NextUpload ==
  \/ (PostUpload /\ UNCHANGED <<callVars, jobVars, embedVars, retryVars, mmrVars, rerankVars, queryVars, chunkVars, breakerVars, consoleVars>>)
  \/ (ExtractFile /\ UNCHANGED <<callVars, jobVars, embedVars, retryVars, mmrVars, rerankVars, queryVars, chunkVars, breakerVars, consoleVars>>)
  \/ (FilterAndProcess /\ UNCHANGED <<callVars, jobVars, embedVars, retryVars, mmrVars, rerankVars, queryVars, chunkVars, breakerVars, consoleVars>>)

SpecUpload == InitUpload /\ [][NextUpload]_vars

\* one circuit breaker with several execute calls in flight
InitBreaker == CacheInit /\ CallIdle /\ JobsInit /\ EmbedIdle /\ RetryIdle /\ MMRIdle /\ RerankIdle /\ QueryIdle /\ ChunkIdle /\ UploadIdle /\ BreakerIdle /\ ConsoleIdle

NextBreaker ==
  \/ (\E c \in Executes : execute(c) /\ UNCHANGED <<cacheVars, callVars, jobVars, embedVars, retryVars, mmrVars, rerankVars, queryVars, chunkVars, uploadVars, consoleVars>>)
  \/ (\E c \in Executes : onSuccess(c) /\ UNCHANGED <<cacheVars, callVars, jobVars, embedVars, retryVars, mmrVars, rerankVars, queryVars, chunkVars, uploadVars, consoleVars>>)
  \/ (\E c \in Executes : onFailure(c) /\ UNCHANGED <<cacheVars, callVars, jobVars, embedVars, retryVars, mmrVars, rerankVars, queryVars, chunkVars, uploadVars, consoleVars>>)
  \/ (BreakerTimePasses /\ UNCHANGED <<cacheVars, callVars, jobVars, embedVars, retryVars, mmrVars, rerankVars, queryVars, chunkVars, uploadVars, consoleVars>>)

SpecBreaker == InitBreaker /\ [][NextBreaker]_vars

\* upload runs capturing console.log
InitConsole == CacheInit /\ CallIdle /\ JobsInit /\ EmbedIdle /\ RetryIdle /\ MMRIdle /\ RerankIdle /\ QueryIdle /\ ChunkIdle /\ UploadIdle /\ BreakerIdle /\ ConsoleIdle

NextConsole ==
  \/ (\E r \in Runs : StartCapture(r) /\ UNCHANGED <<cacheVars, callVars, jobVars, embedVars, retryVars, mmrVars, rerankVars, queryVars, chunkVars, uploadVars, breakerVars>>)
  \/ (\E r \in Runs, outcome \in {"completed", "error"} : FinishCapture(r, outcome) /\ UNCHANGED <<cacheVars, callVars, jobVars, embedVars, retryVars, mmrVars, rerankVars, queryVars, chunkVars, uploadVars, breakerVars>>)

SpecConsole == InitConsole /\ [][NextConsole]_vars

InitRerank == CacheInit /\ CallIdle /\ JobsInit /\ EmbedIdle /\ RetryIdle /\ MMRIdle /\ RerankIdle /\ QueryIdle /\ ChunkIdle /\ UploadIdle /\ BreakerIdle /\ ConsoleIdle

NextRerank ==
  \/ (StartRerank /\ UNCHANGED <<cacheVars, callVars, jobVars, embedVars, retryVars, mmrVars, queryVars, chunkVars, uploadVars, breakerVars, consoleVars>>)
  \/ (CohereResponds /\ UNCHANGED <<cacheVars, callVars, jobVars, embedVars, retryVars, mmrVars, queryVars, chunkVars, uploadVars, breakerVars, consoleVars>>)
  \/ (RerankReturns /\ UNCHANGED <<cacheVars, callVars, jobVars, embedVars, retryVars, mmrVars, queryVars, chunkVars, uploadVars, breakerVars, consoleVars>>)
  \/ (CohereFails /\ UNCHANGED <<cacheVars, callVars, jobVars, embedVars, retryVars, mmrVars, queryVars, chunkVars, uploadVars, breakerVars, consoleVars>>)

SpecRerank == InitRerank /\ [][NextRerank]_vars

(* SpecQuery: one call of query *)

InitQuery == CacheInit /\ CallIdle /\ JobsInit /\ EmbedIdle /\ RetryIdle /\ MMRIdle /\ RerankIdle /\ QueryIdle /\ ChunkIdle /\ UploadIdle /\ BreakerIdle /\ ConsoleIdle

NextQuery ==
  \/ (StartQuery /\ UNCHANGED <<cacheVars, callVars, jobVars, embedVars, retryVars, mmrVars, rerankVars, chunkVars, uploadVars, breakerVars, consoleVars>>)
  \/ (QuestionEmbedded /\ UNCHANGED <<cacheVars, callVars, jobVars, embedVars, retryVars, mmrVars, rerankVars, chunkVars, uploadVars, breakerVars, consoleVars>>)
  \/ (Retrieved /\ UNCHANGED <<cacheVars, callVars, jobVars, embedVars, retryVars, mmrVars, rerankVars, chunkVars, uploadVars, breakerVars, consoleVars>>)
  \/ (Reranked /\ UNCHANGED <<cacheVars, callVars, jobVars, embedVars, retryVars, mmrVars, rerankVars, chunkVars, uploadVars, breakerVars, consoleVars>>)
  \/ (RerankingFails /\ UNCHANGED <<cacheVars, callVars, jobVars, embedVars, retryVars, mmrVars, rerankVars, chunkVars, uploadVars, breakerVars, consoleVars>>)
  \/ (Generated /\ UNCHANGED <<cacheVars, callVars, jobVars, embedVars, retryVars, mmrVars, rerankVars, chunkVars, uploadVars, breakerVars, consoleVars>>)
  \/ (StepFails /\ UNCHANGED <<cacheVars, callVars, jobVars, embedVars, retryVars, mmrVars, rerankVars, chunkVars, uploadVars, breakerVars, consoleVars>>)

SpecQuery == InitQuery /\ [][NextQuery]_vars

(* SpecChunk: one call of processFile *)

InitChunk == CacheInit /\ CallIdle /\ JobsInit /\ EmbedIdle /\ RetryIdle /\ MMRIdle /\ RerankIdle /\ QueryIdle /\ ChunkIdle /\ UploadIdle /\ BreakerIdle /\ ConsoleIdle

NextChunk ==
  \/ (StartProcessFile /\ UNCHANGED <<cacheVars, callVars, jobVars, embedVars, retryVars, mmrVars, rerankVars, queryVars, uploadVars, breakerVars, consoleVars>>)
  \/ (ChunkLoopIteration /\ UNCHANGED <<cacheVars, callVars, jobVars, embedVars, retryVars, mmrVars, rerankVars, queryVars, uploadVars, breakerVars, consoleVars>>)
  \/ (SectionChunked /\ UNCHANGED <<cacheVars, callVars, jobVars, embedVars, retryVars, mmrVars, rerankVars, queryVars, uploadVars, breakerVars, consoleVars>>)

SpecChunk == InitChunk /\ [][NextChunk]_vars

----------------------------------------------------------------------------
(* Claims about the deduplication cache *)

SameFile(u, f) == u.name = f.name /\ u.content = f.content

InUnique(f) == \E i \in 1..Len(uniqueFiles) : SameFile(uniqueFiles[i], f)

InDuplicates(f) == \E i \in 1..Len(duplicates) : duplicates[i].file = f

\* C4: a batch filtered against an empty registry that holds the same content
\* exactly twice yields one of the two files in uniqueFiles and the other one
\* in duplicates.
C4_TwiceInBatchOneUniqueOneDuplicate ==
  (/\ Len(lastBatch) = 2
   /\ hashesBefore = EmptyMap
   /\ lastBatch[1].content = lastBatch[2].content)
  => /\ Len(uniqueFiles) = 1
     /\ Len(duplicates) = 1
     /\ \E i, j \in 1..2 :
          i # j /\ SameFile(uniqueFiles[1], lastBatch[i]) /\ duplicates[1].file = lastBatch[j]

\* C5: a file whose content was registered is reported as a cache duplicate by
\* a later filter call while less than 7 days have passed since the
\* registration, and as unique, its stale entry evicted, from 7 days on;
\* with or without a precomputed contentHash.
C5_RegisteredContentIsDuplicateWithinWindow ==
  (lastBatch # <<>> /\ ~indexed /\ lastRegistered[Trim(lastBatch[1].content)] # NotYet)
  => LET g == lastBatch[1]
         age == checkedAt - lastRegistered[Trim(g.content)]
     IN IF age < ExpiryMs
        THEN InDuplicates(g) /\ ~InUnique(g)
        ELSE /\ InUnique(g) /\ ~InDuplicates(g)
             /\ calculateContentHash(g.content) \notin DOMAIN documentHashes

\* C27: a call of filterDuplicateFiles (through isDocumentDuplicate) or of
\* cleanupExpiredEntries that removes an expired entry from the document
\* registry leaves the chunk-hash set empty, and one that removes none leaves
\* the chunk-hash set as it was
C27_ExpiryClearsTheChunkHashes ==
  [][(CallFilter \/ CallCleanup) =>
       IF DOMAIN documentHashes \ DOMAIN documentHashes' # {}
       THEN chunkHashes' = {}
       ELSE chunkHashes' = chunkHashes]_vars

----------------------------------------------------------------------------
(* Claims about the job orchestrator *)

TerminalStatuses == {COMPLETE, FAILED, CANCELLED}

RunningStatuses == {UPLOADING, EXTRACTING, CHUNKING, EMBEDDING, INDEXING}

\* the jobs whose processJob execution has started and not yet settled
InFlight == {j \in DOMAIN pc : pc[j] \in {"init", "chunk", "embed", "index"}}

InQueue(j) == \E i \in 1..Len(jobQueue) : jobQueue[i] = j

\* C1: at every instant at most maxConcurrentJobs jobs are in a non-terminal,
\* non-PENDING state, and at most that many are being executed by processJob.
C1_AtMostMaxConcurrentJobsRunning ==
  /\ Cardinality({j \in DOMAIN jobs : jobs[j].status \in RunningStatuses})
       <= maxConcurrentJobs
  /\ Cardinality(InFlight) <= maxConcurrentJobs

\* a job is running while two more wait in the queue
C1_Witness ==
  /\ \E j \in DOMAIN jobs : jobs[j].status \in RunningStatuses /\ j \in InFlight
  /\ Len(jobQueue) >= 2

\* C35: at every moment at most one job is executed by processJob, although
\* maxConcurrentJobs is 2: activeJobs is 0 or 1, never negative, equal to the
\* number of processJob executions in flight, and isProcessing is true
\* exactly when activeJobs is 1.
C35_OneJobAtATime ==
  /\ activeJobs \in {0, 1}
  /\ activeJobs = Cardinality(InFlight)
  /\ isProcessing <=> activeJobs = 1

\* a job is executed, a second one waits although the cap of 2 is not reached
C35_Witness ==
  /\ isProcessing
  /\ activeJobs = 1
  /\ activeJobs < maxConcurrentJobs
  /\ Cardinality(InFlight) = 1
  /\ \E j \in DOMAIN jobs : InQueue(j) /\ jobs[j].status = PENDING

\* C36: after any sequence of createJob, cancelJob, processQueue and
\* cleanupOldJobs steps every id in the job queue names a job that is in the
\* job store with status PENDING, and no id is in the queue twice.
C36_QueueHoldsStoredPendingJobs ==
  /\ \A i \in 1..Len(jobQueue) :
       /\ jobQueue[i] \in JobsInMap
       /\ jobs[jobQueue[i]].status = PENDING
  /\ \A i, k \in 1..Len(jobQueue) : i # k => jobQueue[i] # jobQueue[k]

\* C37: in every reachable state of every job the counters satisfy
\* chunksIndexed <= chunksEmbedded <= chunksCreated, for every value the
\* progress callbacks assign to them, and when the job is COMPLETE
\* chunksIndexed is the number of chunks in its result.
C37_CountersAreOrdered ==
  \A j \in DOMAIN jobs :
    /\ jobs[j].chunksIndexed <= jobs[j].chunksEmbedded
    /\ jobs[j].chunksEmbedded <= jobs[j].chunksCreated
    /\ \A k \in 1..Len(jobs[j].embeddedCounts) :
         jobs[j].embeddedCounts[k] \in 0..jobs[j].chunksCreated
    /\ \A k \in 1..Len(jobs[j].indexedCounts) :
         jobs[j].indexedCounts[k] \in 0..jobs[j].chunksEmbedded
    /\ jobs[j].status = COMPLETE => jobs[j].chunksIndexed = jobs[j].result

\* a job has completed with one of its two chunks embedded and indexed
C37_Witness ==
  \E j \in DOMAIN jobs :
    /\ jobs[j].status = COMPLETE
    /\ jobs[j].chunksCreated = 2
    /\ jobs[j].chunksEmbedded = 1
    /\ jobs[j].chunksIndexed = 1
    /\ jobs[j].result = 1

\* job j was cancelled before processQueue picked it
CancelledWhilePending(j) == pc[j] = "none" /\ jobs[j].status = CANCELLED

\* C2: cancelJob on a job that is PENDING in the queue removes its id from the
\* queue, and from then on the job is never picked: it stays CANCELLED,
\* outside the queue, and processJob never starts for it.
C2_CancelledPendingJobNeverRuns ==
  [][\A j \in DOMAIN jobs :
       (\/ jobs[j].status = PENDING /\ InQueue(j) /\ jobs'[j].status = CANCELLED
        \/ CancelledWhilePending(j))
       => /\ jobs'[j].status = CANCELLED
          /\ pc'[j] = "none"
          /\ \A i \in 1..Len(jobQueue') : jobQueue'[i] # j]_vars

\* a job was cancelled while queued, and a job created after it has completed
C2_Witness ==
  \E j, k \in DOMAIN jobs :
    j < k /\ CancelledWhilePending(j) /\ jobs[k].status = COMPLETE

\* C3: once a job's status is COMPLETE, FAILED or CANCELLED no later step
\* changes it; a job cancelled while a stage runs is still CANCELLED when the
\* stage has finished.
C3_TerminalStatusIsFinal ==
  [][\A j \in DOMAIN jobs :
       jobs[j].status \in TerminalStatuses => jobs'[j].status = jobs[j].status]_vars

\* a step in which a key of the document registry is added or rewritten
Registers == \E h \in DOMAIN documentHashes' :
               h \notin DOMAIN documentHashes \/ documentHashes'[h] # documentHashes[h]

\* the step in which indexChunks resolves for job j and the job completes
IndexResolves(j) == pc[j] = "index" /\ pc'[j] = "done" /\ jobs'[j].status = COMPLETE

\* the step in which job j ends FAILED at a stage after its duplicate check
FailsAfterCheck(j) ==
  pc[j] \in {"chunk", "embed", "index"} /\ pc'[j] = "failed" /\ jobs'[j].status = FAILED

RegistersOnlyOnceIndexed ==
  (Registers \/ chunkHashes' # chunkHashes) => \E j \in DOMAIN pc : IndexResolves(j)

\* C6 as stated: hashes are registered only in the step in which indexChunks
\* resolves, and when a job ends FAILED after its duplicate check the document
\* registry and the chunk-hash set equal those at the start of the job.
C6_FailedJobLeavesCacheAsAtStart ==
  [][/\ RegistersOnlyOnceIndexed
     /\ \A j \in DOMAIN pc :
          FailsAfterCheck(j) => /\ documentHashes' = local[j].startHashes
                                /\ chunkHashes' = local[j].startChunkHashes]_vars

\* C6, amended: hashes are registered only in the step in which indexChunks
\* resolves, and when a job ends FAILED after its duplicate check the
\* chunk-hash set equals that at the start of the job and the document
\* registry holds exactly the entries it held at the start of the job, less
\* entries whose retention window has elapsed.
C6_FailedJobAddsNothingToCache ==
  [][/\ RegistersOnlyOnceIndexed
     /\ \A j \in DOMAIN pc :
          FailsAfterCheck(j) =>
            LET start == local[j].startHashes
            IN /\ chunkHashes' = local[j].startChunkHashes
               /\ \A h \in DOMAIN documentHashes' :
                    h \in DOMAIN start /\ documentHashes'[h] = start[h]
               /\ \A h \in DOMAIN start :
                    h \notin DOMAIN documentHashes' => ~StillValid(start[h], now')]_vars

\* a job has registered its files, and a later job, whose duplicate check
\* evicted the expired entry of one of them, has ended FAILED at a later stage
C6_Witness ==
  /\ Len(pc) = 2
  /\ jobs[1].status = COMPLETE /\ jobs[1].filesProcessed > 0
  /\ jobs[2].status = FAILED /\ jobs[2].progress >= 20
  /\ DOMAIN documentHashes # {}
  /\ SHA256(<<"a">>) \notin DOMAIN documentHashes

\* C19: when a stage of a running job has thrown, the job is FAILED, its
\* error and endTime are set and a progress event with status FAILED has been
\* emitted; processQueue has gone through its finally block, so the job no
\* longer counts as active.
C19_ThrowingStageFailsTheJob ==
  /\ \A j \in DOMAIN pc :
       pc[j] = "failed"
       => /\ jobs[j].status = FAILED
          /\ jobs[j].error
          /\ jobs[j].ended
          /\ jobs[j].emitted = FAILED
  /\ activeJobs = Cardinality(InFlight)
  /\ isProcessing <=> InFlight # {}

\* the first job failed and the second one is running
C19_Witness ==
  /\ Len(pc) >= 2
  /\ pc[1] = "failed"
  /\ jobs[1].status = FAILED
  /\ pc[2] \in {"init", "chunk", "embed", "index"}

\* C20: every job that is created and never cancelled eventually reaches
\* COMPLETE or FAILED.
C20_EveryJobEventuallySettles ==
  \A j \in 1..MaxJobs :
    (j \in DOMAIN jobs)
      ~> (j \in DOMAIN jobs /\ jobs[j].status \in {COMPLETE, FAILED, CANCELLED})

\* the state after s in the chain of processJob, "none" after COMPLETE
NextInChain(s) ==
  CASE s = PENDING -> UPLOADING
    [] s = UPLOADING -> EXTRACTING
    [] s = EXTRACTING -> CHUNKING
    [] s = CHUNKING -> EMBEDDING
    [] s = EMBEDDING -> INDEXING
    [] s = INDEXING -> COMPLETE
    [] OTHER -> "none"

\* job.status of job j before the step; a job is created PENDING
StatusBefore(j) == IF j \in DOMAIN jobs THEN jobs[j].status ELSE PENDING

\* job.progress of job j before the step; a job is created with progress 0
ProgressBefore(j) == IF j \in DOMAIN jobs THEN jobs[j].progress ELSE 0

\* whether the step is a step of job j
StepOf(j) == j \notin DOMAIN jobs \/ jobs'[j] # jobs[j]

\* the values job.status of job j takes in the step, from the one before it
StatusPath(j) ==
  IF StepOf(j) THEN <<StatusBefore(j)>> \o jobs'[j].statuses ELSE <<StatusBefore(j)>>

\* the values job.progress of job j takes in the step, from the one before it
ProgressPath(j) ==
  IF StepOf(j) THEN <<ProgressBefore(j)>> \o jobs'[j].progresses ELSE <<ProgressBefore(j)>>

\* C21: every status change of a job is a step to the next state of the chain
\* PENDING, UPLOADING, EXTRACTING, CHUNKING, EMBEDDING, INDEXING, COMPLETE, or a
\* step from a non-terminal state to FAILED or CANCELLED
C21_StatusChangesFollowTheChain ==
  [][\A j \in DOMAIN jobs' :
       \A k \in 1..(Len(StatusPath(j)) - 1) :
         LET from == StatusPath(j)[k]
             to == StatusPath(j)[k + 1]
         IN \/ to = from
            \/ to = NextInChain(from)
            \/ from \notin TerminalStatuses /\ to \in {FAILED, CANCELLED}]_vars

\* C22: every step of a job other than its cancellation leaves job.progress
\* at least as high as it was, through all the values the step assigns (those
\* of the embedding and indexing callbacks included); progress stays within
\* 0..100 and is 100 only with status COMPLETE. The progress of a job that
\* is never cancelled is therefore non-decreasing
C22_ProgressNeverDecreasesUnlessCancelled ==
  [][\A j \in DOMAIN jobs' :
       LET path == ProgressPath(j)
       IN /\ \A k \in 1..Len(path) : path[k] \in 0..100
          /\ \A k \in 1..(Len(path) - 1) : path[k] < 100
          /\ jobs'[j].progress = 100 => jobs'[j].status = COMPLETE
          /\ jobs'[j].statuses # <<CANCELLED>> =>
               \A k \in 1..(Len(path) - 1) : path[k] <= path[k + 1]]_vars

\* a job that was not cancelled since its embedding began is indexing after
\* its embedding callback has reported a progress inside the embedding range
C22_Witness ==
  \E j \in DOMAIN jobs :
    /\ jobs[j].status = INDEXING
    /\ \E k \in DOMAIN jobs[j].progresses : jobs[j].progresses[k] \in 41..69

\* C23: after every run of cleanupOldJobs no job with status COMPLETE, FAILED
\* or CANCELLED that started more than 24 hours ago is left in the job store,
\* and a job removed while in another status was removed by the history limit
\* (every job left is newer)
C23_SweepEvictsOldTerminalJobs ==
  [][cleanupOldJobs =>
       /\ \A j \in JobsInMap' : ~(j <= aged /\ jobs[j].status \in TerminalStatuses)
       /\ \A j \in JobsInMap \ JobsInMap' :
            jobs[j].status \notin TerminalStatuses => \A k \in JobsInMap' : j < k]_vars

\* the jobs a run of cleanupOldJobs removes for the history limit
RemovedByLimit == (JobsInMap \ JobsInMap') \ TooOld

\* C24: after every run of cleanupOldJobs the job store holds at most
\* MAX_JOBS_HISTORY jobs, and every job removed for the limit started no later
\* than every job that is kept
C24_SweepKeepsTheNewestJobs ==
  [][cleanupOldJobs =>
       /\ Cardinality(JobsInMap') <= MAX_JOBS_HISTORY
       /\ \A j \in RemovedByLimit : \A k \in JobsInMap' : j < k]_vars

\* a job still waiting in the queue was removed, which only the history
\* limit does, and a job is kept
C24_Witness ==
  /\ \E j \in deletedJobs : jobs[j].status = PENDING
  /\ JobsInMap # {}

\* C25: a DELETE request for an unknown job or for a job whose status is
\* COMPLETE, FAILED or CANCELLED is refused (cancelJob returns false) and
\* leaves the jobs and the queue as they are; for any other job it succeeds
\* and leaves the job with status CANCELLED, progress 0 and its endTime set
C25_CancelRefusedForTerminalJobs ==
  [][\A j \in 1..MaxJobs :
       DeleteJob(j) =>
         IF j \notin JobsInMap \/ jobs[j].status \in TerminalStatuses
         THEN cancelResponse' = "error" /\ UNCHANGED <<jobs, jobQueue>>
         ELSE /\ cancelResponse' = "success"
              /\ jobs'[j].status = CANCELLED
              /\ jobs'[j].progress = 0
              /\ jobs'[j].ended]_vars

\* C26: jobs start in the order of their creation: of two jobs that are
\* never cancelled, the one created later has not left PENDING while the one
\* created earlier is still PENDING (a job that has left PENDING without
\* being cancelled shows a status other than PENDING and CANCELLED)
C26_JobsStartInCreationOrder ==
  \A a \in DOMAIN jobs : \A b \in DOMAIN jobs :
    (a < b /\ jobs[b].status \notin {PENDING, CANCELLED}) => jobs[a].status # PENDING

----------------------------------------------------------------------------
(* Claims about the embedding service *)

FailedItems == {i \in 1..Len(settled) : settled[i] = "failed"}

OkItems == {i \in 1..Len(settled) : settled[i] = "ok"}

\* the vectors of the first n texts whose item succeeded, in index order
RECURSIVE OkVectors(_)
OkVectors(n) ==
  IF n = 0 THEN <<>>
  ELSE IF settled[n] = "ok" THEN Append(OkVectors(n - 1), EmbeddingOf(texts[n]))
       ELSE OkVectors(n - 1)

\* C7: each chunk generateChunkEmbeddings returns carries the embedding of its
\* own content, and the chunks returned are exactly those whose embedding
\* call succeeded.
C7_ChunksCarryTheirOwnEmbedding ==
  (phase = "returned" /\ caller = "generateChunkEmbeddings")
  => /\ \A k \in 1..Len(returned) :
          returned[k].embedding = EmbeddingOf(returned[k].content)
     /\ {returned[k].id : k \in 1..Len(returned)} = OkItems

\* C8: generateEmbeddingsWithFallback returns as failedIndices the indices F
\* whose call failed, a zero vector at exactly the positions in F, and the
\* embedding of the text at every other position.
C8_FallbackReportsTheFailedIndices ==
  (phase = "returned" /\ caller = "generateEmbeddingsWithFallback")
  => /\ {returned.failedIndices[k] : k \in 1..Len(returned.failedIndices)} = FailedItems
     /\ Len(returned.embeddings) = Len(texts)
     /\ \A i \in 1..Len(texts) :
          returned.embeddings[i] =
            IF i \in FailedItems THEN ZeroVector ELSE EmbeddingOf(texts[i])

\* C9: a generateEmbeddings call returns (it does not reject) whatever items
\* fail: by then every item has been attempted, a failed item has left a null
\* in the embeddings array, and the array returned holds the vectors of the
\* successful items only, in index order, its length being the number of
\* texts less the number of failed items.
C9_FailedItemsAreIsolated ==
  /\ phase = "returned"
     => /\ \A i \in 1..Len(texts) : settled[i] \in {"ok", "failed"}
        /\ \A i \in FailedItems : embeddings[i] = Null
        /\ failed = Cardinality(FailedItems)
  /\ (phase = "returned" /\ caller = "generateEmbeddings")
     => /\ returned = OkVectors(Len(texts))
        /\ Len(returned) = Len(texts) - Cardinality(FailedItems)

\* generateEmbeddings has returned although an item failed, an item of a later
\* group having succeeded after the failure
C9_Witness ==
  /\ phase = "returned"
  /\ caller = "generateEmbeddings"
  /\ \E i, j \in 1..Len(texts) :
       /\ settled[i] = "failed"
       /\ settled[j] = "ok"
       /\ GroupOf(BatchOf(i, batchSize), parallelBatches)
            < GroupOf(BatchOf(j, batchSize), parallelBatches)

\* C10: generateEmbedding makes at most maxRetries + 1 provider calls, sleeps
\* retryDelayMs * 2^k before retry k + 1, resolves with the result of the
\* first successful call, and rejects only when maxRetries + 1 calls failed.
C10_RetriesWithExponentialBackoff ==
  /\ calls <= maxRetries + 1
  /\ \A k \in 1..Len(delays) : delays[k] = retryDelayMs * 2^(k - 1)
  /\ promise \in {"calling", "resolved"}
       => Len(errors) = calls - 1 /\ Len(delays) = calls - 1
  /\ promise = "resolved" => resolvedWith = EmbeddingOf(text)
  /\ promise = "rejected" => calls = maxRetries + 1 /\ Len(errors) = calls

\* the third call succeeded, after two failures and two sleeps
C10_Witness ==
  /\ promise = "resolved"
  /\ calls = 3
  /\ Len(delays) = 2

\* the generateEmbedding calls that have settled
ItemCalls == completed + failed

\* C28: when generateEmbeddingsWithFallback returns after every item of the
\* batch attempt has failed, generateEmbedding has been called once more for
\* each text, one text after the other
C28_TotalFailureIsRetriedPerItem ==
  (/\ phase = "returned"
   /\ caller = "generateEmbeddingsWithFallback"
   /\ texts # <<>>
   /\ FailedItems = 1..Len(texts))
  => ItemCalls = 2 * Len(texts)

\* whether generateEmbedding has been called for the text at index i
Sent(i) ==
  phase \in {"running", "returned"} /\ GroupOf(BatchOf(i, batchSize), parallelBatches) <= group

\* the batches whose processBatch has been called and has not resolved
InFlightBatches ==
  {b \in 1..NumBatches(Len(texts), batchSize) :
     GroupOf(b, parallelBatches) <= group /\ b \notin stored}

\* C29: while generateEmbeddings runs at most parallelBatches batches are in
\* flight, and no item is sent to the provider while an item of a batch of an
\* earlier group has not settled
C29_GroupsRunOneAfterTheOther ==
  phase = "running" =>
    /\ Cardinality(InFlightBatches) <= parallelBatches
    /\ \A i \in 1..Len(texts) : \A j \in 1..Len(texts) :
         (/\ Sent(i)
          /\ GroupOf(BatchOf(j, batchSize), parallelBatches)
               < GroupOf(BatchOf(i, batchSize), parallelBatches))
         => settled[j] # "pending"

\* the second group is in flight after a first group of two batches
C29_Witness ==
  /\ phase = "running"
  /\ group = 2
  /\ Cardinality(BatchesOfGroup(1)) = 2
  /\ \E i \in 1..Len(texts) : Sent(i) /\ settled[i] = "pending"

----------------------------------------------------------------------------
(* Claims about the retriever *)

\* C11: retrieveWithMMR terminates (each iteration moves one candidate from
\* remaining to selected) and returns exactly min(topK, n) results, each a
\* distinct element of the n candidates; it does not throw when n < topK.
C11_MMRReturnsMinOfTopKAndCandidates ==
  /\ mmrPhase = "selecting"
       => /\ Len(selected) + Len(remaining) = Len(candidates)
          /\ Len(selected) <= topK
  /\ mmrPhase = "returned"
       => /\ Len(selected) = Min(topK, Len(candidates))
          /\ \A i \in 1..Len(selected) :
               \E j \in 1..Len(candidates) : selected[i] = candidates[j]
          /\ \A i, j \in 1..Len(selected) : i # j => selected[i].id # selected[j].id

\* a call with fewer candidates than topK has returned all of them
C11_Witness ==
  /\ mmrPhase = "returned"
  /\ Len(candidates) > 0
  /\ Len(candidates) < topK
  /\ Len(selected) = Len(candidates)

\* C12: with lambda = 1 the sequence selected is the first topK candidates in
\* the order the index returned them (descending score, ties by index),
\* whatever the similarities between the candidates.
C12_LambdaOneIsPlainTopK ==
  (lambda = 10 /\ mmrPhase \in {"selecting", "returned"})
  => /\ selected = SubSeq(candidates, 1, Len(selected))
     /\ mmrPhase = "returned" => Len(selected) = Min(topK, Len(candidates))

\* with lambda = 1, two candidates of equal score and equal content were
\* selected in index order, a third candidate being left out
C12_Witness ==
  /\ lambda = 10
  /\ mmrPhase = "returned"
  /\ Len(selected) = 2
  /\ Len(candidates) = 3
  /\ selected[1].score = selected[2].score
  /\ selected[1].content = selected[2].content

\* C30: every iteration of retrieveWithMMR selects the lowest-index remaining
\* candidate that maximises lambda * score - (1 - lambda) * m, where m is the
\* maximum over the selected results of the cosine similarity between the
\* candidate and the selected result, negative when all of them are, and 0
\* when nothing is selected yet.
C30_SelectionMaximisesTheMMRFormula ==
  [][SelectNext =>
       LET m(c) ==
             IF selected = <<>> THEN 0
             ELSE CHOOSE v \in {cosineSimilarity(c, selected[i]) : i \in 1..Len(selected)} :
                    \A i \in 1..Len(selected) : v >= cosineSimilarity(c, selected[i])
           value(i) == lambda * remaining[i].score - (10 - lambda) * m(remaining[i])
           best == CHOOSE i \in 1..Len(remaining) :
                     /\ \A j \in 1..Len(remaining) : value(i) >= value(j)
                     /\ \A j \in 1..(i - 1) : value(j) < value(i)
       IN /\ selected' = Append(selected, remaining[best])
          /\ remaining' = RemoveAt(remaining, best)]_vars

\* C31: the index returning its matches by descending score, the list every
\* retrieval stage returns (retrieve, retrieveWithMMR, rerank on success and
\* on its fallback) is in non-increasing order of score.
C31_EveryStageReturnsDescendingScores ==
  /\ Descending(candidates)
  /\ mmrPhase = "returned" => Descending(selected)
  /\ rerankPhase = "returned" => Descending(rerankReturned)

----------------------------------------------------------------------------
(* Claims about the reranker *)

\* C13: rerank never rejects; when the reranking call fails it resolves to
\* the first topN elements of the input results (topN || this.topN of them),
\* in input order, their score and rerankedScore fields unchanged.
C13_RerankFallsBackToInputHead ==
  /\ rerankPhase \in {"idle", "calling", "sleeping", "returned"}
  /\ (rerankPhase = "returned" /\ rerankFailed)
       => /\ Len(rerankReturned) = Min(rerankTopN(topN), Len(results))
          /\ \A i \in 1..Len(rerankReturned) : rerankReturned[i] = results[i]

\* the call failed for an input longer than topN, and the head was returned
C13_Witness ==
  /\ rerankPhase = "returned"
  /\ rerankFailed
  /\ topN = 2
  /\ Len(results) = 3
  /\ Len(rerankReturned) = 2


\* C32: rerank sends at most the first 50 results (maxInputResults) to the
\* reranking service; when the call succeeds it returns at most
\* min(topN, 50, input length) results, each of them an input result among
\* the first 50, with score and rerankedScore both the relevance score the
\* service returned, sorted by that score in descending order.
C32_RerankCapsItsInputAndSortsByRelevance ==
  (rerankPhase \in {"sleeping", "returned"} /\ ~rerankFailed /\ Len(results) > 0)
  => LET out == IF rerankPhase = "returned" THEN rerankReturned ELSE rerankedResults
     IN /\ Len(out) <= Min(rerankTopN(topN), Min(maxInputResults, Len(results)))
        /\ \A i \in 1..Len(out) :
             /\ out[i].id \in 1..Min(maxInputResults, Len(results))
             /\ out[i].content = results[out[i].id].content
             /\ out[i].documentId = results[out[i].id].documentId
             /\ out[i].score = out[i].rerankedScore
             /\ out[i].rerankedScore \in RelevanceScores
        /\ \A i \in 1..(Len(out) - 1) : out[i].rerankedScore >= out[i + 1].rerankedScore

\* a successful call for an input longer than the cap, asked for more results
\* than the cap, has returned as many results as the cap
C32_Witness ==
  /\ rerankPhase = "returned"
  /\ ~rerankFailed
  /\ Len(results) > maxInputResults
  /\ rerankTopN(topN) > maxInputResults
  /\ Len(rerankReturned) = maxInputResults
  /\ rerankReturned[1].rerankedScore > rerankReturned[2].rerankedScore
  /\ rerankReturned[1].id > rerankReturned[2].id

----------------------------------------------------------------------------
(* Claims about the query pipeline *)

\* C14 as stated: query never rejects, and whenever the query embedding, the
\* retrieval, the reranking or the generation step fails or times out, it
\* resolves to the apology result.
C14_AnyFailedStepGivesTheApology ==
  (queryStage = "resolved" /\ failedSteps # {}) => queryResult = ApologyResult

\* C14: query never rejects. When the query embedding, the retrieval or the
\* generation fails (or the generation times out), it resolves to the apology
\* result: the apology answer, empty citations, sources and retrievalResults,
\* token and cost metrics all zero. A failure of the reranking call does not
\* end the query: rerank falls back to the first rerankedK retrieval results,
\* unchanged, and the query goes on to the generation with them.
C14_FailedStepGivesApologyExceptReranking ==
  /\ queryStage \in {"idle", "embedding", "retrieving", "reranking", "generating", "resolved"}
  /\ (queryStage = "resolved" /\ failedSteps \cap {"embedding", "retrieving", "generating"} # {})
       => /\ queryResult.answer = ApologyResult.answer
          /\ queryResult.citations = <<>>
          /\ queryResult.sources = <<>>
          /\ queryResult.retrievalResults = <<>>
          /\ queryResult.metrics.tokensUsed = 0
          /\ queryResult.metrics.costEstimate = 0
  /\ (queryStage \in {"generating", "resolved"} /\ "reranking" \in failedSteps)
       => finalResults = FirstN(retrievalResults, rerankTopN(options.rerankedK))
  /\ (queryStage = "resolved" /\ failedSteps = {"reranking"})
       => /\ queryResult.answer = "generated"
          /\ queryResult.retrievalResults = finalResults

\* a query whose generation failed after a successful reranking resolved to
\* the apology
C14_Witness ==
  /\ queryStage = "resolved"
  /\ failedSteps = {"generating"}
  /\ options.useReranking
  /\ Len(finalResults) = 2
  /\ queryResult = ApologyResult

\* C15: the citations have ids 1..n in rank order, there is exactly one
\* source document per distinct documentId among the results, and every
\* citation id is in the relevantChunks of exactly one source document, the
\* one of its result's documentId.
C15_CitationsAndSourcesMatchResults ==
  (queryStage = "resolved" /\ queryResult.answer = "generated")
  => LET list == queryResult.retrievalResults
         citations == queryResult.citations
         sources == queryResult.sources
     IN /\ Len(citations) = Len(list)
        /\ \A i \in 1..Len(citations) :
             /\ citations[i].id = i
             /\ citations[i].text = list[i].content
        /\ \A i \in 1..Len(list) : \E j \in 1..Len(sources) : sources[j].id = list[i].documentId
        /\ \A j \in 1..Len(sources) : \E i \in 1..Len(list) : sources[j].id = list[i].documentId
        /\ \A j, k \in 1..Len(sources) : sources[j].id = sources[k].id => j = k
        /\ \A i \in 1..Len(list) : \A j \in 1..Len(sources) :
             Cardinality({p \in 1..Len(sources[j].relevantChunks) :
                            sources[j].relevantChunks[p] = i})
               = IF sources[j].id = list[i].documentId THEN 1 ELSE 0
        /\ \A j \in 1..Len(sources) : \A p \in 1..Len(sources[j].relevantChunks) :
             sources[j].relevantChunks[p] \in 1..Len(list)

\* an answer over three results, the first and the third of one document
C15_Witness ==
  /\ queryStage = "resolved"
  /\ queryResult.answer = "generated"
  /\ Len(queryResult.retrievalResults) = 3
  /\ queryResult.retrievalResults[1].documentId = queryResult.retrievalResults[3].documentId
  /\ queryResult.retrievalResults[1].documentId # queryResult.retrievalResults[2].documentId
  /\ Len(queryResult.sources) = 2
  /\ queryResult.sources[1].relevantChunks = <<1, 3>>

----------------------------------------------------------------------------
(* Claims about the chunker *)

\* C16: when processFile is done, the chunkIndex values of the chunks of the
\* document are exactly 0..N-1 in order, N the number of its chunks, and
\* every chunk has totalChunks = N.
C16_ChunkIndexAndTotalChunks ==
  chunkerPhase = "done"
  => \A i \in 1..Len(docChunks) :
       /\ docChunks[i].chunkIndex = i - 1
       /\ docChunks[i].totalChunks = Len(docChunks)

\* C17: when processFile is done, every character position of the normalized
\* text lies in the range of at least one chunk.
C17_ChunksCoverTheText ==
  chunkerPhase = "done"
  => \A p \in 0..(Len(docContent) - 1) :
       \E i \in 1..Len(docChunks) : docChunks[i].from <= p /\ p < docChunks[i].to

\* C18: in createTokenBasedChunks the window start is larger after every loop
\* iteration than before it, whether the iteration added a chunk or skipped
\* one, so that the loop has run at most text-length iterations when it ends.
C18_WindowStartStrictlyIncreases ==
  chunkerPhase \in {"chunking", "done"}
  => /\ previousPosition < currentPosition \/ iterations = 0
     /\ iterations <= currentPosition
     /\ currentPosition <= Len(sectionText)
     /\ iterations <= Len(sectionText)

\* the text "a a", an empty line, a blank line, "a" was chunked in four
\* iterations: "a a" was added, " a" was too small, the blank line gave an
\* empty chunk and "a" was too small
C18_Witness ==
  /\ chunkerPhase = "done"
  /\ docContent = <<"a", " ", "a", "\n", "\n", " ", "\n", "a">>
  /\ iterations = 4
  /\ Len(sectionChunks) = 1
  /\ currentPosition = Len(sectionText)

\* C33: whatever number of sections the document is split into, processFile
\* returns at most maxChunksPerDocument chunks: the chunks collected for the
\* document never exceed the cap.
C33_DocumentHasAtMostMaxChunks ==
  Len(docChunks) <= maxChunksPerDocument

----------------------------------------------------------------------------
(* Claims about the upload route *)

\* C34: when text extraction fails for one file of an upload, only that file
\* is failed: once the request is answered, every other file of the upload
\* has been extracted and handed to the duplicate filter, and the files the
\* filter kept have been processed.
C34_FailedExtractionSparesTheSiblings ==
  (routePhase = "responded" /\ Len(formFiles) > 0)
  => /\ \A i \in 1..Len(formFiles) :
          Extractable(formFiles[i])
          => \E j \in 1..Len(uploadedFiles) : uploadedFiles[j].name = formFiles[i].name
     /\ (\E i \in 1..Len(formFiles) : Extractable(formFiles[i]))
          => routeResponse \in {"processed", "All files were already processed (duplicates)"}

-----------------------------------------------------------------------------
(* Claims about the circuit breaker *)

\* call c is made in this step
Executed(c) == operations[c] = "none" /\ operations'[c] # "none"

\* C38: in every reachable state, state OPEN implies failures >= threshold;
\* and while the state is OPEN and no more than timeout ms have passed since
\* the last failure, execute rejects with SERVICE_UNAVAILABLE without invoking
\* the operation, whatever calls are in flight and however they complete.
C38_OpenBreakerRejects ==
  [][/\ breakerState = "OPEN" => failures >= threshold
     /\ breakerState' = "OPEN" => failures' >= threshold
     /\ \A c \in Executes :
          (Executed(c) /\ breakerState = "OPEN" /\ breakerClock - lastFailureTime <= timeout)
            => /\ operations'[c] = "SERVICE_UNAVAILABLE"
               /\ UNCHANGED <<breakerState, failures, lastFailureTime>>]_vars

\* the breaker is OPEN with a call rejected as unavailable, a call made before
\* it opened still in flight, and the timeout not yet elapsed
C38_Witness ==
  /\ breakerState = "OPEN"
  /\ failures >= threshold
  /\ breakerClock - lastFailureTime <= timeout
  /\ \E c \in Executes : operations[c] = "SERVICE_UNAVAILABLE"
  /\ \E c \in Executes : operations[c] = "invoked"

\* C39: after the open timeout has elapsed exactly one trial operation is
\* admitted in HALF_OPEN: no operation is invoked in HALF_OPEN while the trial
\* is in flight; when the trial fails the breaker is OPEN and rejects the next
\* call, and when it succeeds the breaker is CLOSED with failures 0.
C39_OneTrialInHalfOpen ==
  [][/\ \A c \in Executes :
          (Executed(c) /\ breakerState = "HALF_OPEN" /\ operations[trial] = "invoked")
            => operations'[c] # "invoked"
     /\ (trial # 0 /\ operations[trial] = "invoked" /\ operations'[trial] = "rejected")
          => breakerState' = "OPEN"
     /\ (trial # 0 /\ operations[trial] = "invoked" /\ operations'[trial] = "resolved")
          => breakerState' = "CLOSED" /\ failures' = 0]_vars

-----------------------------------------------------------------------------
(* Claims about the console.log capture *)

\* C40: once every upload request and background run that has started its
\* capture has finished, with or without an error, console.log is again the
\* function it was before the first of them started.
C40_ConsoleLogIsRestored ==
  (\A r \in Runs : capture[r] # "capturing") => consoleLog = Original
====
